---- MODULE Spec2Model ----
(***************************************************************************)
(* Session lifecycle engine of the scholarship API: the Session record,    *)
(* the SessionManager registry (app/services/session_manager.py), the turn *)
(* and skip handlers (app/routers/session.py) and the form-fill handlers   *)
(* (app/routers/form.py, app/services/form_filler.py).                     *)
(*                                                                         *)
(* Every handler is an `async def` run on one event loop: the code between *)
(* two awaits is one atomic step, and the awaits on the collaborators      *)
(* (speech, extraction, browser automation) are the suspension points.     *)
(***************************************************************************)
EXTENDS Integers, Sequences, FiniteSets, TLC

(***************************************************************************)
(* Bounds of the model.                                                    *)
(***************************************************************************)
\* session ids create_session may hand out (uuid4 values, never reused)
MaxSessions == 2
\* handlers that may be suspended at an await at the same time
MaxTasks == 2
\* turns and fills accepted over the whole run
MaxRequests == 2
\* the clock advances MaxTicks times, TickMinutes at a time
MaxTicks == 1
TickMinutes == 31
\* skip is offered while group_index is below this
MaxGroupIndex == 1
\* the runs of turns and skips on one session (SpecTurns)
TurnsMaxSessions == 1
TurnsMaxRequests == 2
TurnsMaxGroupIndex == 5
\* the runs of expiry, purge and delete (SpecExpiry): a finer, longer clock
ExpiryMaxTicks == 3
ExpiryTickMinutes == 15
\* the runs of fill requests (SpecFill)
FillMaxTasks == 3
FillMaxRequests == 4
\* SpecLookup: one handler suspended at a time, two requests that reach an await
LookupMaxTasks == 1
LookupMaxRequests == 2
\* SpecStatus: fill requests in flight at once, requests that reach an await
StatusMaxTasks == 2
StatusMaxRequests == 3
\* SpecPurge: sessions ever created
PurgeMaxSessions == 3
\* SpecStats: callers of get_stats at once
StatsMaxTasks == 2
\* SpecSingleton: threads calling get_session_manager
MaxThreads == 3
\* SpecStored: requests that reach an await
StoredMaxRequests == 2
\* SpecGrow: turns that reach the extractor
GrowMaxRequests == 3
\* SpecLock: threads inside the SessionManager at once, calls they make
LockMaxTasks == 2
LockMaxRequests == 3

(***************************************************************************)
(* Program constants.                                                      *)
(***************************************************************************)
\* Settings.session_timeout_minutes
session_timeout_minutes == 30
\* ThreadPoolExecutor(max_workers=2)
max_workers == 2

(***************************************************************************)
(* Python values.  A value is [ty, v]: v is the sequence of characters of  *)
(* a str (an atom such as "null" stands for those characters in a row),    *)
(* the one-atom rendering of an int or a bool, or the elements of a list.  *)
(***************************************************************************)
None == [ty |-> "NoneType", v |-> <<>>]
StrV(s) == [ty |-> "str", v |-> s]
IntV(a) == [ty |-> "int", v |-> <<a>>]
BoolV(a) == [ty |-> "bool", v |-> <<a>>]
ListV(s) == [ty |-> "list", v |-> s]

\* bool(value)
Truthy(x) ==
    CASE x.ty = "NoneType" -> FALSE
      [] x.ty = "str" -> x.v # <<>>
      [] x.ty = "int" -> x.v # <<"0">>
      [] x.ty = "bool" -> x.v = <<"True">>
      [] x.ty = "list" -> x.v # <<>>

\* str(value).v
PyStr(x) ==
    CASE x.ty = "str" -> x.v
      [] x.ty = "list" -> IF x.v = <<>> THEN <<"[]">> ELSE <<"[", "'">> \o x.v \o <<"'", "]">>
      [] x.ty = "NoneType" -> <<"None">>
      [] OTHER -> x.v

IsSpace(c) == c \in {" ", "\t"}

RECURSIVE LStrip(_)
LStrip(s) == IF s # <<>> /\ IsSpace(Head(s)) THEN LStrip(Tail(s)) ELSE s

RECURSIVE RStrip(_)
RStrip(s) ==
    IF s # <<>> /\ IsSpace(s[Len(s)]) THEN RStrip(SubSeq(s, 1, Len(s) - 1)) ELSE s

\* str.strip()
Strip(s) == RStrip(LStrip(s))

(***************************************************************************)
(* A dict is the sequence of its <<key, value>> items in insertion order.  *)
(***************************************************************************)
DictKeys(d) == {d[i][1] : i \in 1..Len(d)}
DictGet(d, k) == LET i == CHOOSE j \in 1..Len(d) : d[j][1] = k IN d[i][2]

(***************************************************************************)
(* class Session                                                           *)
(***************************************************************************)
\* the keys of Session.data, in declaration order
DataKeys ==
    << "name", "gender", "d_state_id", "religion", "community",
       "annual_family_income", "c_course_id", "maritalStatus", "hosteler", "dob",
       "xii_roll_no", "twelfthPercentage", "x_roll_no", "tenthPercentage",
       "parent_profession", "competitiveExam", "competitiveRollno" >>

DataKeySet == {DataKeys[i] : i \in 1..Len(DataKeys)}

\* Session.__init__ at time t
Session(session_id, t) ==
    [ session_id |-> session_id,
      status |-> "active",
      last_activity |-> t,
      group_index |-> 0,
      chat_history |-> <<>>,
      data |-> [k \in DataKeySet |-> None],
      form_filling_status |-> "pending",
      form_screenshot_path |-> None,
      form_errors |-> <<>> ]

update_activity(s, t) == [s EXCEPT !.last_activity = t]

add_message(s, role, content, t) ==
    update_activity([s EXCEPT !.chat_history = Append(@, [role |-> role, content |-> content])], t)

\* the test of line 58 on one item
Accepted(data, key, value) ==
    /\ key \in DOMAIN data
    /\ Truthy(value)
    /\ value \notin {StrV(<<"null">>), StrV(<<"NULL">>), StrV(<<>>), None}

\* the loop of update_data comparing the stored value with the value as given
RECURSIVE UpdateLoopUnstripped(_, _, _, _)
UpdateLoopUnstripped(data, updated_fields, new_data, i) ==
    IF i > Len(new_data) THEN [data |-> data, updated_fields |-> updated_fields]
    ELSE LET key == new_data[i][1]
             value == new_data[i][2]
             clean_value == StrV(Strip(PyStr(value)))
         IN IF Accepted(data, key, value) /\ data[key] # StrV(PyStr(value))
            THEN UpdateLoopUnstripped([data EXCEPT ![key] = clean_value],
                                      Append(updated_fields, key), new_data, i + 1)
            ELSE UpdateLoopUnstripped(data, updated_fields, new_data, i + 1)

\* the loop of update_data clearing a field whose new value is "null"
RECURSIVE UpdateLoopClearing(_, _, _, _)
UpdateLoopClearing(data, updated_fields, new_data, i) ==
    IF i > Len(new_data) THEN [data |-> data, updated_fields |-> updated_fields]
    ELSE LET key == new_data[i][1]
             value == new_data[i][2]
             clean_value == StrV(Strip(PyStr(value)))
         IN IF Accepted(data, key, value) /\ data[key] # clean_value
            THEN UpdateLoopClearing([data EXCEPT ![key] = clean_value],
                                    Append(updated_fields, key), new_data, i + 1)
            ELSE IF key \in DOMAIN data /\ value = StrV(<<"null">>) /\ data[key] # None
            THEN UpdateLoopClearing([data EXCEPT ![key] = None],
                                    Append(updated_fields, key), new_data, i + 1)
            ELSE UpdateLoopClearing(data, updated_fields, new_data, i + 1)

\* the loop of update_data over the items from i on: [data, updated_fields]
RECURSIVE UpdateLoop(_, _, _, _)
UpdateLoop(data, updated_fields, new_data, i) ==
    IF i > Len(new_data) THEN [data |-> data, updated_fields |-> updated_fields]
    ELSE LET key == new_data[i][1]
             value == new_data[i][2]
             clean_value == StrV(Strip(PyStr(value)))
         IN IF Accepted(data, key, value) /\ data[key] # clean_value
            THEN UpdateLoop([data EXCEPT ![key] = clean_value],
                            Append(updated_fields, key), new_data, i + 1)
            ELSE UpdateLoop(data, updated_fields, new_data, i + 1)

\* Session.update_data at time t: [session, updated_fields]
update_data(s, new_data, t) ==
    LET r == UpdateLoop(s.data, <<>>, new_data, 1)
    IN [session |-> update_activity([s EXCEPT !.data = r.data], t),
        updated_fields |-> r.updated_fields]

\* Session.get_filled_data: the keys whose value is not None, in declaration order
get_filled_data(s) == SelectSeq(DataKeys, LAMBDA k : s.data[k] # None)

\* advance_group starting the questionnaire over after the last group
advance_group_wrapping(s, t) ==
    update_activity([s EXCEPT !.group_index = (@ + 1) % 4], t)

\* advance_group stopping at the number of groups
advance_group_clamped(s, t) ==
    update_activity([s EXCEPT !.group_index = IF @ < 4 THEN @ + 1 ELSE @], t)

advance_group(s, t) == update_activity([s EXCEPT !.group_index = @ + 1], t)

\* is_expired with >= for >
is_expired_at_deadline(s, timeout_minutes, t) == t >= s.last_activity + timeout_minutes

is_expired(s, timeout_minutes, t) == t > s.last_activity + timeout_minutes

(***************************************************************************)
(* State.                                                                  *)
(***************************************************************************)
VARIABLES
    now,        \* datetime.utcnow(), in minutes
    heap,       \* the Session objects ever constructed; object i has session_id i
    _sessions,  \* SessionManager._sessions: the ids whose object the dict holds
    _lock,      \* SessionManager._lock: "free" or "held"
    task,       \* the request slots: a handler suspended at an await, or idle
    nreq,       \* requests that reached an await so far
    executor,   \* per slot, the ThreadPoolExecutor of the request's FormFillerService
    response,   \* the response of the request that returned last
    effects,    \* history: per session, the turns that mutated it, in order
    completed,  \* history: per session, the accepted turns and skips that returned
    limit,      \* the bounds of the run
    _session_manager,  \* the module global: 0 for None, or the k-th SessionManager
    _manager_lock,     \* the module's _manager_lock: "free" or "held"
    thread,     \* the threads calling get_session_manager(): position and value
    managers    \* the SessionManager objects constructed so far

vars == <<now, heap, _sessions, _lock, task, nreq, executor, response, effects, completed,
          limit,
          _session_manager, _manager_lock, thread, managers>>

\* the state of get_session_manager
singleton == <<_session_manager, _manager_lock, thread, managers>>

Ids == 1..MaxSessions
\* the threads that call get_session_manager
Threads == 1..MaxThreads
\* the request slots
Tasks == 1..(IF MaxTasks > FillMaxTasks THEN MaxTasks ELSE FillMaxTasks)
\* get_session's None
NoSession == 0

Allocated == 1..Len(heap)

(***************************************************************************)
(* class SessionManager.  m is [sessions, heap, lock]; every method        *)
(* returns the manager after the call and the value returned.              *)
(***************************************************************************)
\* __enter__ and __exit__ of `with self._lock`
\* `with self._lock` that takes no lock
acquire_nothing(m) == m

acquire(m) == [m EXCEPT !.lock = "held"]
release(m) == [m EXCEPT !.lock = "free"]

\* Store with `data` one dict that every Session shares
StoreSharedData(h, id, s) ==
    [i \in DOMAIN h |-> IF i = id THEN s ELSE [h[i] EXCEPT !.data = s.data]]

\* the object identity of a session: a write through one reference changes
\* that object only
Store(h, id, s) == [h EXCEPT ![id] = s]

\* _cleanup_expired removing the sessions that get_session has marked, not
\* those that is_expired finds
_cleanup_expired_marked(m, t) ==
    LET expired == {sid \in m.sessions : m.heap[sid].status = "expired"}
    IN [m EXCEPT !.sessions = @ \ expired]

_cleanup_expired(m, t) ==
    LET expired == {sid \in m.sessions :
                        is_expired(m.heap[sid], session_timeout_minutes, t)}
    IN [m EXCEPT !.sessions = @ \ expired]

\* create_session numbering the sessions by the size of the registry, for
\* uuid4: the id of a session that is still registered is given out again
create_session_numbered(m, t) ==
    LET session_id == Cardinality(m.sessions) + 1
        session == Session(session_id, t)
        a == acquire([m EXCEPT !.heap = IF session_id > Len(@) THEN Append(@, session)
                                        ELSE Store(@, session_id, session)])
        b == _cleanup_expired([a EXCEPT !.sessions = @ \cup {session_id}], t)
    IN [m |-> release(b), ret |-> session_id]

create_session(m, t) ==
    LET session_id == Len(m.heap) + 1
        session == Session(session_id, t)
        a == acquire([m EXCEPT !.heap = Append(@, session)])
        b == _cleanup_expired([a EXCEPT !.sessions = @ \cup {session_id}], t)
    IN [m |-> release(b), ret |-> session_id]

\* get_session without the test of is_expired
get_session_never_expired(m, session_id, t) ==
    LET a == acquire(m)
        session == IF session_id \in a.sessions THEN session_id ELSE NoSession
    IN IF session = NoSession THEN [m |-> release(a), ret |-> NoSession]
       ELSE [m |-> release([a EXCEPT !.heap =
                        Store(@, session, update_activity(@[session], t))]),
             ret |-> session]

\* get_session returning a live session from inside the lock without leaving it
get_session_holding_lock(m, session_id, t) ==
    LET a == acquire(m)
        session == IF session_id \in a.sessions THEN session_id ELSE NoSession
    IN IF session = NoSession THEN [m |-> release(a), ret |-> NoSession]
       ELSE IF is_expired(a.heap[session], session_timeout_minutes, t)
       THEN [m |-> release([a EXCEPT !.heap =
                        Store(@, session, [@[session] EXCEPT !.status = "expired"])]),
             ret |-> NoSession]
       ELSE [m |-> [a EXCEPT !.heap = Store(@, session, update_activity(@[session], t))],
             ret |-> session]

\* get_session returning a live session without update_activity
get_session_reading(m, session_id, t) ==
    LET a == acquire(m)
        session == IF session_id \in a.sessions THEN session_id ELSE NoSession
        r == IF session = NoSession THEN [m |-> a, ret |-> NoSession]
             ELSE IF is_expired(a.heap[session], session_timeout_minutes, t)
             THEN [m |-> [a EXCEPT !.heap =
                            Store(@, session, [@[session] EXCEPT !.status = "expired"])],
                   ret |-> NoSession]
             ELSE [m |-> a, ret |-> session]
    IN [m |-> release(r.m), ret |-> r.ret]

get_session(m, session_id, t) ==
    LET a == acquire(m)
        session == IF session_id \in a.sessions THEN session_id ELSE NoSession
        r == IF session = NoSession THEN [m |-> a, ret |-> NoSession]
             ELSE IF is_expired(a.heap[session], session_timeout_minutes, t)
             THEN [m |-> [a EXCEPT !.heap =
                            Store(@, session, [@[session] EXCEPT !.status = "expired"])],
                   ret |-> NoSession]
             ELSE [m |-> [a EXCEPT !.heap =
                            Store(@, session, update_activity(@[session], t))],
                   ret |-> session]
    IN [m |-> release(r.m), ret |-> r.ret]

\* delete_session as `self._sessions.pop(session_id, None); return True`
delete_session_pop(m, session_id) ==
    LET a == acquire(m)
    IN [m |-> release([a EXCEPT !.sessions = @ \ {session_id}]), ret |-> TRUE]

delete_session(m, session_id) ==
    LET a == acquire(m)
        r == IF session_id \in a.sessions
             THEN [m |-> [a EXCEPT !.sessions = @ \ {session_id}], ret |-> TRUE]
             ELSE [m |-> a, ret |-> FALSE]
    IN [m |-> release(r.m), ret |-> r.ret]

\* len(QUESTION_GROUPS)
NumGroups == 4

is_finished(m, session_id, t) ==
    LET g == get_session(m, session_id, t)
    IN [m |-> g.m,
        ret |-> IF g.ret = NoSession THEN TRUE
                ELSE g.m.heap[g.ret].group_index >= NumGroups]

get_stats(m) ==
    LET a == acquire(m)
    IN [m |-> release(a),
        ret |-> [total_sessions |-> Cardinality(a.sessions),
                 active_sessions |->
                    Cardinality({sid \in a.sessions : a.heap[sid].status = "active"})]]

\* SessionManager.QUESTION_GROUPS
QUESTION_GROUPS ==
    << [title |-> "Personal Details - Part 1",
        intro |-> "Let's start with some basic information.",
        questions |->
            << "What is your full name?",
               "What is your gender? (Male, Female, or Others)",
               "Which state do you belong to? (full name, like DELHI or KARNATAKA)",
               "What is your religion? (Hindu, Muslim, Christian, Sikh, etc.)" >>],
       [title |-> "Personal & Family Details - Part 2",
        intro |-> "Thank you. Now some more personal and family details.",
        questions |->
            << "What is your date of birth? (DD/MM/YYYY)",
               "Are you married? (Married / Unmarried / Divorced / Widowed)",
               "Do you live in a hostel right now? (Yes / No)",
               "What is your family's annual income? (only number, example 360000)",
               "What category do you belong to? (General / OBC / SC / ST)" >>],
       [title |-> "Education Details",
        intro |-> "Great. Now let's talk about your education.",
        questions |->
            << "Which course are you studying or have completed? (example: Class 12, B.Tech, MBBS)",
               "What was your 10th class roll number?",
               "What percentage did you get in 10th?",
               "What was your 12th class roll number? (if applicable)",
               "What percentage did you get in 12th? (if applicable)" >>],
       [title |-> "Additional / Special Information",
        intro |-> "Almost done. Just a few more details.",
        questions |->
            << "What is your parent's or guardian's profession? (or say None)",
               "Are you applying through any competitive exam? (example: NMMS, or say No)",
               "If yes, what is the roll number of that exam?",
               "Is there anything else important you want to tell me?" >>] >>

\* the dict get_current_questions returns for a group
QuestionGroup(group, group_index, is_last) ==
    [title |-> group.title, intro |-> group.intro, questions |-> group.questions,
     group_index |-> group_index, is_last |-> is_last]

\* get_current_questions telling the last group from the end by > for >=
get_current_questions_one_more(m, session_id, t) ==
    LET g == get_session(m, session_id, t)
    IN IF g.ret = NoSession THEN [m |-> g.m, ret |-> None]
       ELSE LET session == g.m.heap[g.ret]
            IN IF session.group_index > Len(QUESTION_GROUPS)
               THEN [m |-> g.m, ret |-> None]
               ELSE [m |-> g.m,
                     ret |-> QuestionGroup(
                                QUESTION_GROUPS[
                                    IF session.group_index < Len(QUESTION_GROUPS)
                                    THEN session.group_index + 1 ELSE Len(QUESTION_GROUPS)],
                                session.group_index,
                                session.group_index >= Len(QUESTION_GROUPS) - 1)]

\* get_current_questions with is_last compared to the length, not to the
\* last index
get_current_questions_last_at_length(m, session_id, t) ==
    LET g == get_session(m, session_id, t)
    IN IF g.ret = NoSession THEN [m |-> g.m, ret |-> None]
       ELSE LET session == g.m.heap[g.ret]
            IN IF session.group_index >= Len(QUESTION_GROUPS)
               THEN [m |-> g.m, ret |-> None]
               ELSE [m |-> g.m,
                     ret |-> QuestionGroup(QUESTION_GROUPS[session.group_index + 1],
                                session.group_index,
                                session.group_index >= Len(QUESTION_GROUPS))]

\* SessionManager.get_current_questions: None, or the group at group_index
\* (list indices from 0)
get_current_questions(m, session_id, t) ==
    LET g == get_session(m, session_id, t)
    IN IF g.ret = NoSession THEN [m |-> g.m, ret |-> None]
       ELSE LET session == g.m.heap[g.ret]
            IN IF session.group_index >= Len(QUESTION_GROUPS)
               THEN [m |-> g.m, ret |-> None]
               ELSE [m |-> g.m,
                     ret |-> QuestionGroup(QUESTION_GROUPS[session.group_index + 1],
                                session.group_index,
                                session.group_index >= Len(QUESTION_GROUPS) - 1)]

\* the manager as the state holds it
Manager == [sessions |-> _sessions, heap |-> heap, lock |-> _lock]

(***************************************************************************)
(* Responses.                                                              *)
(***************************************************************************)
Response(op, session_id, status_code, body) ==
    [op |-> op, session_id |-> session_id, status_code |-> status_code, body |-> body]

NotFound(op, session_id) == Response(op, session_id, 404, [detail |-> "not found"])

IdleTask == [pc |-> "idle"]

\* class ThreadPoolExecutor: the jobs its workers run, and those queued
ThreadPoolExecutor == [busy |-> 0, queued |-> 0]

submit(e) ==
    IF e.busy < max_workers THEN [e EXCEPT !.busy = @ + 1] ELSE [e EXCEPT !.queued = @ + 1]

\* a job returns: its worker takes the next queued job, if any
job_done(e) ==
    IF e.queued > 0 THEN [e EXCEPT !.queued = @ - 1] ELSE [e EXCEPT !.busy = @ - 1]

InitState ==
    /\ now = 0
    /\ heap = <<>>
    /\ _sessions = {}
    /\ _lock = "free"
    /\ task = [t \in Tasks |-> IdleTask]
    /\ nreq = 0
    /\ executor = [t \in Tasks |-> ThreadPoolExecutor]
    /\ response = Response("none", NoSession, 0, [detail |-> "none"])
    /\ effects = [id \in Ids |-> <<>>]
    /\ completed = [id \in Ids |-> 0]
    /\ _session_manager = 0
    /\ _manager_lock = "free"
    /\ thread = [th \in Threads |-> [pc |-> "idle", ret |-> 0]]
    /\ managers = 0

Limit(sessions, tasks, requests, ticks, tick_minutes, group_index) ==
    [sessions |-> sessions, tasks |-> tasks, requests |-> requests, ticks |-> ticks,
     tick_minutes |-> tick_minutes, group_index |-> group_index]

Init ==
    /\ InitState
    /\ limit = Limit(MaxSessions, MaxTasks, MaxRequests, MaxTicks, TickMinutes, MaxGroupIndex)

(***************************************************************************)
(* Handlers that do not suspend (app/routers/session.py).                  *)
(***************************************************************************)
\* a Session object that nothing refers to any more
Freed == Session(0, 0)

Referenced(tk, i) == \E t \in Tasks : tk[t].pc # "idle" /\ tk[t].session = i

\* The state after a handler's step: the manager m and the request slots tk.
\* An object that neither the dict nor a suspended handler refers to is
\* reclaimed, and its history with it.
Commit(m, tk, eff, comp) ==
    LET live(i) == i \in m.sessions \/ Referenced(tk, i)
    IN /\ heap' = [i \in DOMAIN m.heap |-> IF live(i) THEN m.heap[i] ELSE Freed]
       /\ _sessions' = m.sessions
       /\ _lock' = m.lock
       /\ task' = tk
       /\ effects' = [i \in Ids |-> IF i \in DOMAIN m.heap /\ ~live(i) THEN <<>> ELSE eff[i]]
       /\ completed' = [i \in Ids |-> IF i \in DOMAIN m.heap /\ ~live(i) THEN 0 ELSE comp[i]]

SessionResponse(op, session, status) ==
    Response(op, session.session_id, 200,
        [status |-> status,
         current_group_index |-> session.group_index,
         total_groups |-> NumGroups])

\* POST /session/start
start_session ==
    /\ Len(heap) < limit.sessions
    /\ _lock = "free"
    /\ LET c == create_session(Manager, now)
       IN /\ Commit(c.m, task, effects, completed)
          /\ response' = SessionResponse("start_session", c.m.heap[c.ret],
                                         c.m.heap[c.ret].status)
    /\ UNCHANGED <<now, nreq, executor, limit, singleton>>

\* GET /session/{session_id}
get_session_status(session_id) ==
    /\ _lock = "free"
    /\ LET g == get_session(Manager, session_id, now)
       IN /\ Commit(g.m, task, effects, completed)
          /\ response' =
                IF g.ret = NoSession THEN NotFound("get_session", session_id)
                ELSE SessionResponse("get_session", g.m.heap[g.ret], g.m.heap[g.ret].status)
    /\ UNCHANGED <<now, nreq, executor, limit, singleton>>

\* skip_group storing the status it reports
skip_group_storing_status(session_id) ==
    /\ _lock = "free"
    /\ LET g == get_session(Manager, session_id, now)
       IN IF g.ret = NoSession
          THEN /\ Commit(g.m, task, effects, completed)
               /\ response' = NotFound("skip_group", session_id)
          ELSE /\ g.m.heap[g.ret].group_index < limit.group_index
               /\ LET advanced == [g.m EXCEPT !.heap =
                                    Store(@, g.ret, advance_group(@[g.ret], now))]
                      f == is_finished(advanced, session_id, now)
                      status == IF f.ret THEN "completed" ELSE "active"
                      stored == [f.m EXCEPT !.heap =
                                    Store(@, g.ret, [@[g.ret] EXCEPT !.status = status])]
                  IN /\ Commit(stored, task, effects, [completed EXCEPT ![g.ret] = @ + 1])
                     /\ response' = SessionResponse("skip_group", stored.heap[g.ret], status)
    /\ UNCHANGED <<now, nreq, executor, limit, singleton>>

\* skip_group run as a turn with an empty answer: the answer is appended to
\* the history before the group advances
skip_group_as_empty_turn(session_id) ==
    /\ _lock = "free"
    /\ LET g == get_session(Manager, session_id, now)
       IN IF g.ret = NoSession
          THEN /\ Commit(g.m, task, effects, completed)
               /\ response' = NotFound("skip_group", session_id)
          ELSE /\ g.m.heap[g.ret].group_index < limit.group_index
               /\ LET said == add_message(g.m.heap[g.ret], "user", StrV(<<>>), now)
                      advanced == [g.m EXCEPT !.heap =
                                    Store(@, g.ret, advance_group(said, now))]
                      f == is_finished(advanced, session_id, now)
                  IN /\ Commit(f.m, task, effects, [completed EXCEPT ![g.ret] = @ + 1])
                     /\ response' = SessionResponse("skip_group", f.m.heap[g.ret],
                                        IF f.ret THEN "completed" ELSE "active")
    /\ UNCHANGED <<now, nreq, executor, limit, singleton>>

\* POST /session/{session_id}/skip
skip_group(session_id) ==
    /\ _lock = "free"
    /\ LET g == get_session(Manager, session_id, now)
       IN IF g.ret = NoSession
          THEN /\ Commit(g.m, task, effects, completed)
               /\ response' = NotFound("skip_group", session_id)
          ELSE /\ g.m.heap[g.ret].group_index < limit.group_index
               /\ LET advanced == [g.m EXCEPT !.heap =
                                    Store(@, g.ret, advance_group(@[g.ret], now))]
                      f == is_finished(advanced, session_id, now)
                  IN /\ Commit(f.m, task, effects, [completed EXCEPT ![g.ret] = @ + 1])
                     /\ response' = SessionResponse("skip_group", f.m.heap[g.ret],
                                        IF f.ret THEN "completed" ELSE "active")
    /\ UNCHANGED <<now, nreq, executor, limit, singleton>>

\* DELETE /session/{session_id}
delete_session_endpoint(session_id) ==
    /\ _lock = "free"
    /\ LET d == delete_session(Manager, session_id)
       IN /\ Commit(d.m, task, effects, completed)
          /\ response' = IF d.ret
                         THEN Response("delete_session", session_id, 200,
                                  [detail |-> "Session deleted successfully"])
                         ELSE NotFound("delete_session", session_id)
    /\ UNCHANGED <<now, nreq, executor, limit, singleton>>

\* GET /session/{session_id}/questions
get_questions(session_id) ==
    /\ _lock = "free"
    /\ LET g == get_session(Manager, session_id, now)
       IN IF g.ret = NoSession
          THEN /\ Commit(g.m, task, effects, completed)
               /\ response' = NotFound("get_questions", session_id)
          ELSE LET questions == get_current_questions(g.m, session_id, now)
               IN /\ Commit(questions.m, task, effects, completed)
                  /\ response' = Response("get_questions", session_id, 200, questions.ret)
    /\ UNCHANGED <<now, nreq, executor, limit, singleton>>

\* round((fields_filled / total_fields) * 100, 1), in tenths of a percent:
\* the tenth nearest to the quotient (with 17 fields no quotient lies halfway)
completion_percentage_truncated(fields_filled, total_fields) ==
    (1000 * fields_filled) \div total_fields

completion_percentage(fields_filled, total_fields) ==
    (2000 * fields_filled + total_fields) \div (2 * total_fields)

\* GET /session/{session_id}/data
get_data(session_id) ==
    /\ _lock = "free"
    /\ LET g == get_session(Manager, session_id, now)
       IN /\ Commit(g.m, task, effects, completed)
          /\ response' =
                IF g.ret = NoSession THEN NotFound("get_data", session_id)
                ELSE LET session == g.m.heap[g.ret]
                         filled_data == get_filled_data(session)
                         total_fields == Cardinality(DOMAIN session.data)
                         fields_filled == Len(filled_data)
                     IN Response("get_data", session_id, 200,
                            [data |-> session.data,
                             fields_filled |-> fields_filled,
                             total_fields |-> total_fields,
                             completion_percentage |->
                                completion_percentage(fields_filled, total_fields)])
    /\ UNCHANGED <<now, nreq, executor, limit, singleton>>

(***************************************************************************)
(* The collaborators' answers.                                             *)
(***************************************************************************)
\* ExtractionService.extract returns None (any failure, or no JSON object in
\* the answer) or the dict json.loads gave
ExtractFailed == [ok |-> FALSE, dict |-> <<>>]
Extracted(d) == [ok |-> TRUE, dict |-> d]

AshaKumar == StrV(<<"Asha Kumar">>)

ExtractorResults ==
    { ExtractFailed,
      Extracted(<<>>),
      Extracted(<< <<"name", AshaKumar>> >>),
      Extracted(<< <<"name", StrV(<<"null">>)>> >>),
      Extracted(<< <<"name", StrV(<<" ", "Asha", " ">>)>>,
                   <<"gender", StrV(<<"null">>)>>,
                   <<"nickname", StrV(<<"Ash">>)>> >>) }

\* the text of a POST /session/{id}/text body
Texts == {StrV(<<>>), StrV(<<" ">>), StrV(<<"My name is Asha Kumar">>)}

\* the bytes of an uploaded audio file: none, or some
AudioFiles == {<<>>, <<"RIFF">>}

\* SpeechService.transcribe_audio returns None or the stripped, non-empty text
TranscribeFailed == None
Transcriptions == {TranscribeFailed, StrV(<<"My name is Asha Kumar">>)}

\* repr() of a value and of a dict, as f"Extracted: {extracted}" renders them
PyRepr(x) == IF x.ty = "str" THEN <<"'">> \o x.v \o <<"'">> ELSE PyStr(x)

RECURSIVE ReprItems(_, _)
ReprItems(d, i) ==
    IF i > Len(d) THEN <<>>
    ELSE <<"'", d[i][1], "'", ": ">> \o PyRepr(d[i][2])
            \o (IF i < Len(d) THEN <<", ">> ELSE <<>>) \o ReprItems(d, i + 1)

ReprDict(d) == <<"{">> \o ReprItems(d, 1) \o <<"}">>

(***************************************************************************)
(* Turns (app/routers/session.py).                                         *)
(***************************************************************************)
\* the lowest idle slot takes the next request
FreeSlot(t) ==
    /\ task[t].pc = "idle"
    /\ \A u \in Tasks : u < t => task[u].pc # "idle"
    /\ Cardinality({u \in Tasks : task[u].pc # "idle"}) < limit.tasks

\* a request at an await: pc names the call awaited, calls the collaborators
\* the request has called so far, in order
Suspended(pc, kind, session_id, session, text, req) ==
    [pc |-> pc, kind |-> kind, session_id |-> session_id, session |-> session,
     text |-> text, req |-> req, calls |-> <<pc>>]

\* per session, the turns whose effects the record saw, a turn named once
\* for each unbroken run of its effects
Logged(e, session, req) ==
    [e EXCEPT ![session] = IF @ # <<>> /\ @[Len(@)] = req THEN @ ELSE Append(@, req)]

\* finish_turn giving the turn up when extract returned nothing
finish_turn_aborting(h, session, extracted, t) ==
    IF extracted.ok /\ extracted.dict # <<>>
    THEN LET d == update_data(h[session], extracted.dict, t)
             said == add_message(d.session, "assistant",
                        StrV(<<"Extracted: ">> \o ReprDict(extracted.dict)), t)
         IN [heap |-> Store(h, session, advance_group(said, t)),
             fields_updated |-> d.updated_fields]
    ELSE [heap |-> h, fields_updated |-> <<>>]

\* finish_turn writing the assistant's message only when a field changed
finish_turn_audit_on_update(h, session, extracted, t) ==
    LET u == IF extracted.ok /\ extracted.dict # <<>>
             THEN LET d == update_data(h[session], extracted.dict, t)
                  IN [session |-> IF d.updated_fields # <<>>
                                  THEN add_message(d.session, "assistant",
                                     StrV(<<"Extracted: ">> \o ReprDict(extracted.dict)), t)
                                  ELSE d.session,
                      fields_updated |-> d.updated_fields]
             ELSE [session |-> h[session], fields_updated |-> <<>>]
    IN [heap |-> Store(h, session, advance_group(u.session, t)),
        fields_updated |-> u.fields_updated]

\* lines 129-135 and 187-192: what a turn does once extract has returned
finish_turn(h, session, extracted, t) ==
    LET u == IF extracted.ok /\ extracted.dict # <<>>
             THEN LET d == update_data(h[session], extracted.dict, t)
                  IN [session |-> add_message(d.session, "assistant",
                                     StrV(<<"Extracted: ">> \o ReprDict(extracted.dict)), t),
                      fields_updated |-> d.updated_fields]
             ELSE [session |-> h[session], fields_updated |-> <<>>]
    IN [heap |-> Store(h, session, advance_group(u.session, t)),
        fields_updated |-> u.fields_updated]

TextProcessResponse(session_id, text, session, fields_updated) ==
    Response("process_text", session_id, 200,
        [input_text |-> text,
         extracted_data |-> session.data,
         fields_updated |-> fields_updated])

\* POST /session/{session_id}/text, to the await on extract (or to the end
\* when the request is refused or extract returns without awaiting)
process_text(t, session_id, text) ==
    /\ FreeSlot(t)
    /\ _lock = "free"
    /\ IF text.v = <<>>
       THEN \* TextInput: min_length=1
            /\ response' = Response("process_text", session_id, 422,
                                [detail |-> "validation"])
            /\ UNCHANGED <<heap, _sessions, _lock, task, nreq, effects, completed>>
       ELSE LET g == get_session(Manager, session_id, now)
            IN IF g.ret = NoSession
               THEN /\ Commit(g.m, task, effects, completed)
                    /\ response' = NotFound("process_text", session_id)
                    /\ UNCHANGED nreq
               ELSE /\ nreq < limit.requests
                    /\ nreq' = nreq + 1
                    /\ LET said == Store(g.m.heap, g.ret,
                                      add_message(g.m.heap[g.ret], "user", text, now))
                           logged == Logged(effects, g.ret, nreq + 1)
                       IN IF Strip(text.v) = <<>>
                          THEN \* extract: `if not user_input.strip(): return None`
                               LET f == finish_turn(said, g.ret, ExtractFailed, now)
                               IN /\ Commit([g.m EXCEPT !.heap = f.heap], task, logged,
                                            [completed EXCEPT ![g.ret] = @ + 1])
                                  /\ response' = TextProcessResponse(session_id, text,
                                                    f.heap[g.ret], f.fields_updated)
                          ELSE /\ Commit([g.m EXCEPT !.heap = said],
                                         [task EXCEPT ![t] = Suspended("extract", "text",
                                                session_id, g.ret, text, nreq + 1)],
                                         logged, completed)
                               /\ UNCHANGED response
    /\ UNCHANGED <<now, executor, limit, singleton>>

\* process_text calling extract a second time when the first call failed
process_text_extracted_retrying(t, extracted) ==
    /\ task[t].pc = "extract"
    /\ task[t].kind = "text"
    /\ IF ~extracted.ok /\ Len(task[t].calls) < 2
       THEN /\ Commit(Manager, [task EXCEPT ![t].calls = Append(@, "extract")],
                      effects, completed)
            /\ UNCHANGED response
       ELSE LET session == task[t].session
                f == finish_turn(heap, session, extracted, now)
            IN /\ response' = TextProcessResponse(task[t].session_id, task[t].text,
                                 f.heap[session], f.fields_updated)
               /\ Commit([Manager EXCEPT !.heap = f.heap], [task EXCEPT ![t] = IdleTask],
                         Logged(effects, session, task[t].req),
                         [completed EXCEPT ![session] = @ + 1])
    /\ UNCHANGED <<now, nreq, executor, limit, singleton>>

\* process_text from the return of extract to the response
process_text_extracted(t, extracted) ==
    /\ task[t].pc = "extract"
    /\ task[t].kind = "text"
    /\ LET session == task[t].session
           f == finish_turn(heap, session, extracted, now)
       IN /\ response' = TextProcessResponse(task[t].session_id, task[t].text,
                            f.heap[session], f.fields_updated)
          /\ Commit([Manager EXCEPT !.heap = f.heap], [task EXCEPT ![t] = IdleTask],
                    Logged(effects, session, task[t].req),
                    [completed EXCEPT ![session] = @ + 1])
    /\ UNCHANGED <<now, nreq, executor, limit, singleton>>

\* POST /session/{session_id}/audio, to the await on transcribe_audio
process_audio(t, session_id, audio_bytes) ==
    /\ FreeSlot(t)
    /\ _lock = "free"
    /\ LET g == get_session(Manager, session_id, now)
       IN IF g.ret = NoSession
          THEN /\ Commit(g.m, task, effects, completed)
               /\ response' = NotFound("process_audio", session_id)
               /\ UNCHANGED nreq
          ELSE IF audio_bytes = <<>>
          THEN /\ Commit(g.m, task, effects, completed)
               /\ response' = Response("process_audio", session_id, 400,
                                    [detail |-> "Empty audio file"])
               /\ UNCHANGED nreq
          ELSE /\ nreq < limit.requests
               /\ nreq' = nreq + 1
               /\ Commit(g.m, [task EXCEPT ![t] = Suspended("transcribe", "audio",
                                    session_id, g.ret, None, nreq + 1)],
                         effects, completed)
               /\ UNCHANGED response
    /\ UNCHANGED <<now, executor, limit, singleton>>

\* process_audio going on without a text when transcribe_audio returned none:
\* no field updated, the group advanced
process_audio_transcribed_degrading(t, transcribed_text) ==
    /\ task[t].pc = "transcribe"
    /\ LET session == task[t].session
       IN IF ~Truthy(transcribed_text)
          THEN LET f == finish_turn(heap, session, ExtractFailed, now)
               IN /\ response' = Response("process_audio", task[t].session_id, 200,
                                    [transcribed_text |-> transcribed_text,
                                     extracted_data |-> f.heap[session].data])
                  /\ Commit([Manager EXCEPT !.heap = f.heap],
                            [task EXCEPT ![t] = IdleTask],
                            Logged(effects, session, task[t].req),
                            [completed EXCEPT ![session] = @ + 1])
          ELSE /\ Commit([Manager EXCEPT !.heap = Store(@, session,
                            add_message(@[session], "user", transcribed_text, now))],
                         [task EXCEPT ![t].pc = "extract", ![t].text = transcribed_text,
                                      ![t].calls = Append(@, "extract")],
                         Logged(effects, session, task[t].req), completed)
               /\ UNCHANGED response
    /\ UNCHANGED <<now, nreq, executor, limit, singleton>>

\* process_audio from the return of transcribe_audio to the await on extract
process_audio_transcribed(t, transcribed_text) ==
    /\ task[t].pc = "transcribe"
    /\ LET session == task[t].session
       IN IF ~Truthy(transcribed_text)
          THEN /\ response' = Response("process_audio", task[t].session_id, 400,
                                 [detail |-> "Could not transcribe audio"])
               /\ Commit(Manager, [task EXCEPT ![t] = IdleTask], effects, completed)
          ELSE /\ Commit([Manager EXCEPT !.heap = Store(@, session,
                            add_message(@[session], "user", transcribed_text, now))],
                         [task EXCEPT ![t].pc = "extract", ![t].text = transcribed_text,
                                      ![t].calls = Append(@, "extract")],
                         Logged(effects, session, task[t].req), completed)
               /\ UNCHANGED response
    /\ UNCHANGED <<now, nreq, executor, limit, singleton>>

\* process_audio from the return of extract to the response
process_audio_extracted(t, extracted) ==
    /\ task[t].pc = "extract"
    /\ task[t].kind = "audio"
    /\ LET session == task[t].session
           f == finish_turn(heap, session, extracted, now)
       IN /\ response' = Response("process_audio", task[t].session_id, 200,
                            [transcribed_text |-> task[t].text,
                             extracted_data |-> f.heap[session].data])
          /\ Commit([Manager EXCEPT !.heap = f.heap], [task EXCEPT ![t] = IdleTask],
                    Logged(effects, session, task[t].req),
                    [completed EXCEPT ![session] = @ + 1])
    /\ UNCHANGED <<now, nreq, executor, limit, singleton>>

(***************************************************************************)
(* Form filling (app/routers/form.py).                                     *)
(***************************************************************************)
\* what _fill_form_sync returns: (success, message, errors, screenshot_path)
ScreenshotPath(session_id, t) ==
    StrV(<<"form_", ToString(session_id), "_", ToString(t), ".png">>)

FillOutcomes == {"filled", "partial", "failed"}

_fill_form_sync(outcome, session_id, t) ==
    CASE outcome = "filled" ->
            [success |-> TRUE,
             message |-> "Form filled successfully. CAPTCHA required for submission.",
             errors |-> <<>>, screenshot_path |-> ScreenshotPath(session_id, t)]
      [] outcome = "partial" ->
            [success |-> TRUE,
             message |-> "Form partially filled with errors. CAPTCHA required.",
             errors |-> <<"Could not fill name">>,
             screenshot_path |-> ScreenshotPath(session_id, t)]
      [] outcome = "failed" ->
            [success |-> FALSE, message |-> "Form filling failed", errors |-> <<"boom">>,
             screenshot_path |-> None]

\* fill_form storing "in_progress" before it looks at the filled data
fill_form_status_first(t, session_id) ==
    /\ FreeSlot(t)
    /\ _lock = "free"
    /\ LET g == get_session(Manager, session_id, now)
           form_filler == ThreadPoolExecutor
           marked == IF g.ret = NoSession THEN g.m
                     ELSE [g.m EXCEPT !.heap = Store(@, g.ret,
                                [@[g.ret] EXCEPT !.form_filling_status = "in_progress"])]
       IN IF g.ret = NoSession
          THEN /\ Commit(g.m, task, effects, completed)
               /\ response' = NotFound("fill_form", session_id)
               /\ UNCHANGED <<nreq, executor>>
          ELSE IF get_filled_data(g.m.heap[g.ret]) = <<>>
          THEN /\ Commit(marked, task, effects, completed)
               /\ response' = Response("fill_form", session_id, 400,
                                [detail |-> "No data collected yet"])
               /\ UNCHANGED <<nreq, executor>>
          ELSE /\ nreq < limit.requests
               /\ nreq' = nreq + 1
               /\ Commit(marked,
                         [task EXCEPT ![t] = Suspended("fill", "fill", session_id, g.ret,
                                                       None, nreq + 1)],
                         effects, completed)
               /\ executor' = [executor EXCEPT ![t] = submit(form_filler)]
               /\ UNCHANGED response
    /\ UNCHANGED <<now, limit, singleton>>

\* POST /form/{session_id}/fill, to the await on form_filler.fill_form
fill_form(t, session_id) ==
    /\ FreeSlot(t)
    /\ _lock = "free"
    /\ LET g == get_session(Manager, session_id, now)
           \* get_form_filler: a FormFillerService of the request's own
           form_filler == ThreadPoolExecutor
       IN IF g.ret = NoSession
          THEN /\ Commit(g.m, task, effects, completed)
               /\ response' = NotFound("fill_form", session_id)
               /\ UNCHANGED <<nreq, executor>>
          ELSE IF get_filled_data(g.m.heap[g.ret]) = <<>>
          THEN /\ Commit(g.m, task, effects, completed)
               /\ response' = Response("fill_form", session_id, 400,
                                [detail |-> "No data collected yet"])
               /\ UNCHANGED <<nreq, executor>>
          ELSE /\ nreq < limit.requests
               /\ nreq' = nreq + 1
               /\ Commit([g.m EXCEPT !.heap = Store(@, g.ret,
                                [@[g.ret] EXCEPT !.form_filling_status = "in_progress"])],
                         [task EXCEPT ![t] = Suspended("fill", "fill", session_id, g.ret,
                                                       None, nreq + 1)],
                         effects, completed)
               /\ executor' = [executor EXCEPT ![t] = submit(form_filler)]
               /\ UNCHANGED response
    /\ UNCHANGED <<now, limit, singleton>>

\* the status of the response reporting a clean fill as completed
response_status_completed(success, errors) ==
    IF success /\ errors = <<>> THEN "completed"
    ELSE IF success /\ errors # <<>> THEN "captcha_required"
    ELSE "failed"

\* "Determine status" in fill_form
response_status(success, errors) ==
    IF success /\ errors = <<>> THEN "captcha_required"
    ELSE IF success /\ errors # <<>> THEN "captcha_required"
    ELSE "failed"

\* fill_form from the return of form_filler.fill_form to the response
fill_form_filled(t, outcome) ==
    /\ task[t].pc = "fill"
    /\ executor[t].busy > 0
    /\ executor' = [executor EXCEPT ![t] = job_done(@)]
    /\ LET session == task[t].session
           result == _fill_form_sync(outcome, task[t].session_id, now)
       IN /\ Commit([Manager EXCEPT !.heap = Store(@, session,
                        [@[session] EXCEPT
                            !.form_filling_status =
                                IF result.success THEN "completed" ELSE "failed",
                            !.form_screenshot_path = result.screenshot_path,
                            !.form_errors = result.errors])],
                    [task EXCEPT ![t] = IdleTask], effects, completed)
          /\ response' = Response("fill_form", task[t].session_id, 200,
                            [status |-> response_status(result.success, result.errors),
                             message |-> result.message,
                             screenshot_url |-> result.screenshot_path # None,
                             errors |-> result.errors])
    /\ UNCHANGED <<now, nreq, limit, singleton>>

\* status_map of get_form_status
status_map(form_filling_status) ==
    CASE form_filling_status = "pending" -> "pending"
      [] form_filling_status = "in_progress" -> "in_progress"
      [] form_filling_status = "completed" -> "captcha_required"
      [] form_filling_status = "failed" -> "failed"
      [] OTHER -> "pending"

\* GET /form/{session_id}/status
get_form_status(session_id) ==
    /\ _lock = "free"
    /\ LET g == get_session(Manager, session_id, now)
       IN /\ Commit(g.m, task, effects, completed)
          /\ response' =
                IF g.ret = NoSession THEN NotFound("get_form_status", session_id)
                ELSE LET session == g.m.heap[g.ret]
                     IN Response("get_form_status", session_id, 200,
                            [status |-> status_map(session.form_filling_status),
                             message |-> session.form_filling_status,
                             screenshot_url |-> Truthy(session.form_screenshot_path),
                             errors |-> session.form_errors])
    /\ UNCHANGED <<now, nreq, executor, limit, singleton>>

\* GET /form/{session_id}/screenshot; on_disk: the screenshots directory holds
\* a file of this session
get_screenshot(session_id, on_disk) ==
    /\ _lock = "free"
    /\ LET g == get_session(Manager, session_id, now)
       IN /\ Commit(g.m, task, effects, completed)
          /\ response' =
                IF g.ret = NoSession THEN NotFound("get_screenshot", session_id)
                ELSE LET session == g.m.heap[g.ret]
                         \* FormFillerService.get_screenshot_path
                         latest == IF on_disk
                                   THEN StrV(<<"form_", ToString(session_id), "_latest.png">>)
                                   ELSE None
                         screenshot_path == IF Truthy(session.form_screenshot_path)
                                            THEN session.form_screenshot_path ELSE latest
                     IN IF ~Truthy(screenshot_path) \/ ~on_disk
                        THEN Response("get_screenshot", session_id, 404,
                                 [detail |-> "Screenshot not found"])
                        ELSE Response("get_screenshot", session_id, 200,
                                 [file |-> screenshot_path])
    /\ UNCHANGED <<now, nreq, executor, limit, singleton>>

\* the keys of text_fields and of dropdown_fields in preview_form_data
text_fields ==
    {"name", "annual_family_income", "xii_roll_no", "twelfthPercentage", "x_roll_no",
     "tenthPercentage", "competitiveRollno", "dob"}

dropdown_fields ==
    {"d_state_id", "gender", "religion", "community", "maritalStatus", "c_course_id",
     "parent_profession", "hosteler", "competitiveExam"}

\* GET /form/{session_id}/preview
preview_form_data(session_id) ==
    /\ _lock = "free"
    /\ LET g == get_session(Manager, session_id, now)
       IN /\ Commit(g.m, task, effects, completed)
          /\ response' =
                IF g.ret = NoSession THEN NotFound("preview_form_data", session_id)
                ELSE LET filled_data == get_filled_data(g.m.heap[g.ret])
                     IN Response("preview_form_data", session_id, 200,
                            [text_fields |-> SelectSeq(filled_data, LAMBDA k : k \in text_fields),
                             dropdown_fields |->
                                SelectSeq(filled_data, LAMBDA k : k \in dropdown_fields),
                             total_fields_filled |-> Len(filled_data),
                             ready_to_fill |-> Len(filled_data) >= 3])
    /\ UNCHANGED <<now, nreq, executor, limit, singleton>>

\* _fill_form_sync calls that are executing, over every executor of the process
RunningFills ==
    LET RECURSIVE Sum(_)
        Sum(n) == IF n = 0 THEN 0 ELSE executor[n].busy + Sum(n - 1)
    IN Sum(Cardinality(Tasks))

\* the clock
Tick ==
    /\ now < limit.ticks * limit.tick_minutes
    /\ now' = now + limit.tick_minutes
    /\ UNCHANGED <<heap, _sessions, _lock, task, nreq, executor, response, effects, completed,
                   limit, singleton>>

(***************************************************************************)
(* Spec: every handler, on two sessions, with the fewest inputs that take  *)
(* each path of a handler.                                                 *)
(***************************************************************************)
SomeText == StrV(<<"My name is Asha Kumar">>)

Next ==
    \/ start_session
    \/ \E session_id \in Ids :
        \/ get_session_status(session_id)
        \/ skip_group(session_id)
        \/ delete_session_endpoint(session_id)
        \/ \E t \in Tasks :
            \/ process_text(t, session_id, SomeText)
            \/ process_audio(t, session_id, <<"RIFF">>)
            \/ fill_form(t, session_id)
    \/ \E t \in Tasks :
        \/ \E extracted \in {ExtractFailed, Extracted(<< <<"name", AshaKumar>> >>)} :
            \/ process_text_extracted(t, extracted)
            \/ process_audio_extracted(t, extracted)
        \/ process_audio_transcribed(t, SomeText)
        \/ \E outcome \in {"filled", "failed"} : fill_form_filled(t, outcome)
    \/ Tick

Spec == Init /\ [][Next]_vars

(***************************************************************************)
(* SpecTurns: text turns, audio turns and skips on one session, with every *)
(* input, and no clock.                                                    *)
(***************************************************************************)
InitTurns ==
    /\ InitState
    /\ limit = Limit(TurnsMaxSessions, MaxTasks, TurnsMaxRequests, 0, 0, TurnsMaxGroupIndex)

NextTurns ==
    \/ start_session
    \/ \E session_id \in Ids :
        \/ skip_group(session_id)
        \/ get_questions(session_id)
        \/ \E t \in Tasks :
            \/ \E text \in Texts : process_text(t, session_id, text)
            \/ \E audio_bytes \in AudioFiles : process_audio(t, session_id, audio_bytes)
    \/ \E t \in Tasks :
        \/ \E extracted \in ExtractorResults :
            \/ process_text_extracted(t, extracted)
            \/ process_audio_extracted(t, extracted)
        \/ \E transcribed_text \in Transcriptions :
            process_audio_transcribed(t, transcribed_text)

SpecTurns == InitTurns /\ [][NextTurns]_vars

(***************************************************************************)
(* SpecExpiry: the registry under a clock that reaches the timeout in two  *)
(* steps and passes it in three, with a text turn in flight.               *)
(***************************************************************************)
InitExpiry ==
    /\ InitState
    /\ limit = Limit(MaxSessions, MaxTasks, MaxRequests, ExpiryMaxTicks, ExpiryTickMinutes, 0)

NextExpiry ==
    \/ start_session
    \/ \E session_id \in Ids :
        \/ get_session_status(session_id)
        \/ delete_session_endpoint(session_id)
        \/ \E t \in Tasks : process_text(t, session_id, SomeText)
    \/ \E t \in Tasks : process_text_extracted(t, ExtractFailed)
    \/ Tick

SpecExpiry == InitExpiry /\ [][NextExpiry]_vars

(***************************************************************************)
(* SpecFill: fill requests on one session that a text turn has filled.     *)
(***************************************************************************)
InitFill ==
    /\ InitState
    /\ limit = Limit(1, FillMaxTasks, FillMaxRequests, 0, 0, 0)

NextFill ==
    \/ start_session
    \/ \E session_id \in Ids, t \in Tasks :
        \/ process_text(t, session_id, SomeText)
        \/ fill_form(t, session_id)
    \/ \E t \in Tasks :
        \/ process_text_extracted(t, Extracted(<< <<"name", AshaKumar>> >>))
        \/ \E outcome \in FillOutcomes : fill_form_filled(t, outcome)

SpecFill == InitFill /\ [][NextFill]_vars

(***************************************************************************)
(* SpecMerge: Session.update_data on one session, applied twice in a row   *)
(* to each candidate map.                                                  *)
(***************************************************************************)
\* the values json.loads can put in the extractor's dict
CandidateValues ==
    { None, StrV(<<>>), StrV(<<" ">>), StrV(<<"a">>), StrV(<<" ", "a", " ">>),
      StrV(<<"null">>), StrV(<<" ", "null">>), IntV("42"), IntV("0"), BoolV("True"),
      ListV(<<"a">>) }

PairedValues == {None, StrV(<<"a">>), StrV(<<"b", " ">>), StrV(<<" ">>)}

Candidates ==
    {<<>>, << <<"nickname", StrV(<<"a">>)>> >>}
        \cup {<< <<"name", v>> >> : v \in CandidateValues}
        \cup {<< <<"dob", v>>, <<"name", w>> >> : v \in PairedValues, w \in PairedValues}

InitMerge ==
    /\ InitState
    /\ limit = Limit(1, 0, 0, 0, 0, 0)

\* session.update_data(new_data) and then session.update_data(new_data) again
update_data_twice(session_id, new_data) ==
    /\ session_id \in _sessions
    /\ LET first == update_data(heap[session_id], new_data, now)
           second == update_data(first.session, new_data, now)
       IN /\ heap' = Store(heap, session_id, second.session)
          /\ response' = Response("update_data", session_id, 0,
                            [new_data |-> new_data,
                             before |-> heap[session_id].data,
                             first |-> [data |-> first.session.data,
                                        updated_fields |-> first.updated_fields],
                             second |-> [data |-> second.session.data,
                                         updated_fields |-> second.updated_fields]])
    /\ UNCHANGED <<now, _sessions, _lock, task, nreq, executor, effects, completed, limit, singleton>>

NextMerge ==
    \/ start_session
    \/ \E session_id \in Ids, new_data \in Candidates : update_data_twice(session_id, new_data)

SpecMerge == InitMerge /\ [][NextMerge]_vars

(***************************************************************************)
(* SpecData: GET /session/{id}/data on a session whose fields fill up.     *)
(***************************************************************************)
\* the first k fields, all with value v
FirstFields(k, v) == [i \in 1..k |-> <<DataKeys[i], v>>]

FieldCandidates ==
    {FirstFields(k, StrV(<<"a">>)) : k \in 1..Len(DataKeys)}
        \cup {FirstFields(1, v) : v \in {StrV(<<" ">>), StrV(<<"null">>), StrV(<<"b", " ">>)}}
        \cup {<< <<"dob", StrV(<<"b">>)>>, <<"nickname", StrV(<<"a">>)>> >>}

InitData ==
    /\ InitState
    /\ limit = Limit(1, 0, 0, 0, 0, 0)

NextData ==
    \/ start_session
    \/ \E session_id \in Ids :
        \/ get_data(session_id)
        \/ \E new_data \in FieldCandidates : update_data_twice(session_id, new_data)

SpecData == InitData /\ [][NextData]_vars

(***************************************************************************)
(* SpecLookup: every handler that takes a session id, on one session that  *)
(* can expire and on an id the registry never issued.                      *)
(***************************************************************************)
InitLookup ==
    /\ InitState
    /\ limit = Limit(1, LookupMaxTasks, LookupMaxRequests, ExpiryMaxTicks, ExpiryTickMinutes, 0)

NextLookup ==
    \/ start_session
    \/ \E session_id \in Ids :
        \/ get_session_status(session_id)
        \/ get_questions(session_id)
        \/ get_data(session_id)
        \/ skip_group(session_id)
        \/ delete_session_endpoint(session_id)
        \/ get_form_status(session_id)
        \/ \E on_disk \in BOOLEAN : get_screenshot(session_id, on_disk)
        \/ preview_form_data(session_id)
        \/ \E t \in Tasks :
            \/ \E text \in Texts : process_text(t, session_id, text)
            \/ \E audio_bytes \in AudioFiles : process_audio(t, session_id, audio_bytes)
            \/ fill_form(t, session_id)
    \/ \E t \in Tasks :
        \/ \E extracted \in {ExtractFailed, Extracted(<< <<"name", AshaKumar>> >>)} :
            \/ process_text_extracted(t, extracted)
            \/ process_audio_extracted(t, extracted)
        \/ \E transcribed_text \in Transcriptions :
            process_audio_transcribed(t, transcribed_text)
        \/ \E outcome \in {"filled", "failed"} : fill_form_filled(t, outcome)
    \/ Tick

SpecLookup == InitLookup /\ [][NextLookup]_vars

(***************************************************************************)
(* SpecStatus: GET /form/{id}/status between the fill requests of one      *)
(* session that a text turn has filled.                                    *)
(***************************************************************************)
InitStatus ==
    /\ InitState
    /\ limit = Limit(1, StatusMaxTasks, StatusMaxRequests, 0, 0, 0)

NextStatus ==
    \/ start_session
    \/ \E session_id \in Ids :
        \/ get_form_status(session_id)
        \/ \E t \in Tasks :
            \/ process_text(t, session_id, SomeText)
            \/ fill_form(t, session_id)
    \/ \E t \in Tasks :
        \/ process_text_extracted(t, Extracted(<< <<"name", AshaKumar>> >>))
        \/ \E outcome \in FillOutcomes : fill_form_filled(t, outcome)

SpecStatus == InitStatus /\ [][NextStatus]_vars

(***************************************************************************)
(* SpecPurge: sessions created one after another under the clock of        *)
(* SpecExpiry, some of them kept alive by GET /session/{id}.               *)
(***************************************************************************)
InitPurge ==
    /\ InitState
    /\ limit = Limit(PurgeMaxSessions, 0, 0, ExpiryMaxTicks, ExpiryTickMinutes, 0)

NextPurge ==
    \/ start_session
    \/ \E session_id \in 1..PurgeMaxSessions : get_session_status(session_id)
    \/ Tick

SpecPurge == InitPurge /\ [][NextPurge]_vars

(***************************************************************************)
(* GET /stats: SessionManager.get_stats in the two reads it makes inside   *)
(* `with self._lock`, so that other callers of the manager may run between *)
(* them if the lock lets them.                                             *)
(***************************************************************************)
\* get_stats from `with self._lock` to len(self._sessions)
get_stats_enter(t) ==
    /\ FreeSlot(t)
    /\ _lock = "free"
    /\ LET a == acquire(Manager)
       IN Commit(a, [task EXCEPT ![t] =
                        [pc |-> "stats", session |-> NoSession,
                         total_sessions |-> Cardinality(a.sessions)]],
                 effects, completed)
    /\ UNCHANGED <<now, nreq, executor, response, limit, singleton>>

\* get_stats from the sum over self._sessions.values() to the response
get_stats_return(t) ==
    /\ task[t].pc = "stats"
    /\ response' = Response("get_stats", NoSession, 200,
                        [total_sessions |-> task[t].total_sessions,
                         active_sessions |-> get_stats(Manager).ret.active_sessions])
    /\ Commit(release(Manager), [task EXCEPT ![t] = IdleTask], effects, completed)
    /\ UNCHANGED <<now, nreq, executor, limit, singleton>>

(***************************************************************************)
(* SpecStats: GET /stats among creations, lookups and deletions of two     *)
(* sessions, one tick past the timeout.                                    *)
(***************************************************************************)
InitStats ==
    /\ InitState
    /\ limit = Limit(MaxSessions, StatsMaxTasks, 0, MaxTicks, TickMinutes, 0)

NextStats ==
    \/ start_session
    \/ \E session_id \in Ids :
        \/ get_session_status(session_id)
        \/ delete_session_endpoint(session_id)
    \/ \E t \in Tasks :
        \/ get_stats_enter(t)
        \/ get_stats_return(t)
    \/ Tick

SpecStats == InitStats /\ [][NextStats]_vars

(***************************************************************************)
(* get_session_manager (app/services/session_manager.py), one step for     *)
(* each read or write of the globals it shares with other threads.         *)
(***************************************************************************)
\* what the threads of get_session_manager leave alone
requests == <<now, heap, _sessions, _lock, task, nreq, executor, response, effects,
              completed, limit>>

\* the call, to the first `if _session_manager is None`
get_session_manager(th) ==
    /\ thread[th].pc \in {"idle", "done"}
    /\ thread' = [thread EXCEPT ![th].pc =
                    IF _session_manager = 0 THEN "lock" ELSE "return"]
    /\ UNCHANGED <<_session_manager, _manager_lock, managers, requests>>

\* `with _manager_lock:`
get_session_manager_enter(th) ==
    /\ thread[th].pc = "lock"
    /\ _manager_lock = "free"
    /\ _manager_lock' = "held"
    /\ thread' = [thread EXCEPT ![th].pc = "check"]
    /\ UNCHANGED <<_session_manager, managers, requests>>

\* the with block entered straight into the construction, without the
\* second test
get_session_manager_recheck_skipped(th) ==
    /\ thread[th].pc = "check"
    /\ thread' = [thread EXCEPT ![th].pc = "construct"]
    /\ UNCHANGED <<_session_manager, _manager_lock, managers, requests>>

\* the second `if _session_manager is None`, inside the lock
get_session_manager_recheck(th) ==
    /\ thread[th].pc = "check"
    /\ IF _session_manager = 0
       THEN /\ thread' = [thread EXCEPT ![th].pc = "construct"]
            /\ UNCHANGED _manager_lock
       ELSE /\ thread' = [thread EXCEPT ![th].pc = "return"]
            /\ _manager_lock' = "free"
    /\ UNCHANGED <<_session_manager, managers, requests>>

\* `_session_manager = SessionManager()` and the end of the with block
get_session_manager_construct(th) ==
    /\ thread[th].pc = "construct"
    /\ managers' = managers + 1
    /\ _session_manager' = managers + 1
    /\ _manager_lock' = "free"
    /\ thread' = [thread EXCEPT ![th].pc = "return"]
    /\ UNCHANGED requests

\* `return _session_manager`
get_session_manager_return(th) ==
    /\ thread[th].pc = "return"
    /\ thread' = [thread EXCEPT ![th] = [pc |-> "done", ret |-> _session_manager]]
    /\ UNCHANGED <<_session_manager, _manager_lock, managers, requests>>

(***************************************************************************)
(* SpecSingleton: threads that call get_session_manager at any time, the   *)
(* first calls among them at once.                                         *)
(***************************************************************************)
InitSingleton ==
    /\ InitState
    /\ limit = Limit(0, 0, 0, 0, 0, 0)

NextSingleton ==
    \E th \in Threads :
        \/ get_session_manager(th)
        \/ get_session_manager_enter(th)
        \/ get_session_manager_recheck(th)
        \/ get_session_manager_construct(th)
        \/ get_session_manager_return(th)

SpecSingleton == InitSingleton /\ [][NextSingleton]_vars

(***************************************************************************)
(* SpecStored: one session skipped past the last group, looked up and      *)
(* counted, with a turn and a fill, one tick past the timeout.             *)
(***************************************************************************)
InitStored ==
    /\ InitState
    /\ limit = Limit(1, StatsMaxTasks, StoredMaxRequests, MaxTicks, TickMinutes,
                     TurnsMaxGroupIndex)

NextStored ==
    \/ start_session
    \/ \E session_id \in Ids :
        \/ get_session_status(session_id)
        \/ skip_group(session_id)
        \/ \E t \in Tasks :
            \/ process_text(t, session_id, SomeText)
            \/ fill_form(t, session_id)
    \/ \E t \in Tasks :
        \/ get_stats_enter(t)
        \/ get_stats_return(t)
        \/ process_text_extracted(t, Extracted(<< <<"name", AshaKumar>> >>))
        \/ \E outcome \in {"filled", "failed"} : fill_form_filled(t, outcome)
    \/ Tick

SpecStored == InitStored /\ [][NextStored]_vars

(***************************************************************************)
(* SpecGrow: text turns of one session, two at a time, whose extractor     *)
(* sets a field, sets it again to blanks, or names it "null", with GET     *)
(* /session/{id}/data between them.                                        *)
(***************************************************************************)
GrowResults ==
    { ExtractFailed,
      Extracted(<< <<"name", AshaKumar>> >>),
      Extracted(<< <<"name", StrV(<<" ">>)>> >>),
      Extracted(<< <<"name", StrV(<<"null">>)>>, <<"dob", StrV(<<"b">>)>> >>) }

InitGrow ==
    /\ InitState
    /\ limit = Limit(1, MaxTasks, GrowMaxRequests, 0, 0, 0)

NextGrow ==
    \/ start_session
    \/ \E session_id \in Ids :
        \/ get_data(session_id)
        \/ \E t \in Tasks : process_text(t, session_id, SomeText)
    \/ \E t \in Tasks, extracted \in GrowResults : process_text_extracted(t, extracted)

SpecGrow == InitGrow /\ [][NextGrow]_vars

(***************************************************************************)
(* The methods of SessionManager as threads run them: the call, the entry  *)
(* into `with self._lock` (a threading.Lock, which its holder cannot take  *)
(* again), the block with its exit, and what the method does after it.     *)
(***************************************************************************)
ManagerOps ==
    {"create_session", "get_session", "delete_session", "get_current_questions",
     "is_finished", "get_stats"}

\* a thread inside a method of the manager; holds: it is inside a with block
Calling(pc, op, session_id, session, holds) ==
    [pc |-> pc, op |-> op, session_id |-> session_id, session |-> session, holds |-> holds]

\* a thread calls a method and comes to its `with self._lock` (for
\* get_current_questions and is_finished, that of the get_session they call)
manager_call(t, op, session_id) ==
    /\ FreeSlot(t)
    /\ nreq < limit.requests
    /\ op = "create_session" => (Len(heap) < limit.sessions /\ session_id = NoSession)
    /\ op = "get_stats" => session_id = NoSession
    /\ op \notin {"create_session", "get_stats"} => session_id \in Ids
    /\ nreq' = nreq + 1
    /\ task' = [task EXCEPT ![t] = Calling("acquire", op, session_id, NoSession, FALSE)]
    /\ UNCHANGED <<now, heap, _sessions, _lock, executor, response, effects, completed,
                   limit, singleton>>

\* Lock.__enter__: blocks until the lock is free, whoever holds it
lock_enter(t) ==
    /\ task[t].pc = "acquire"
    /\ _lock = "free"
    /\ _lock' = "held"
    /\ task' = [task EXCEPT ![t].pc = "locked", ![t].holds = TRUE]
    /\ UNCHANGED <<now, heap, _sessions, nreq, executor, response, effects, completed,
                   limit, singleton>>

\* create_session whose _cleanup_expired enters `with self._lock` itself
create_session_locked_relocking(t) ==
    /\ task[t].pc = "locked"
    /\ task[t].op = "create_session"
    /\ task' = [task EXCEPT ![t].pc = "acquire"]
    /\ UNCHANGED <<now, heap, _sessions, _lock, nreq, executor, response, effects,
                   completed, limit, singleton>>

\* create_session inside the lock, with the purge, to its return
create_session_locked(t) ==
    /\ task[t].pc = "locked"
    /\ task[t].op = "create_session"
    /\ LET c == create_session(Manager, now)
       IN /\ Commit(c.m, [task EXCEPT ![t] = IdleTask], effects, completed)
          /\ response' = Response("create_session", c.ret, 200, [ret |-> c.ret])
    /\ UNCHANGED <<now, nreq, executor, limit, singleton>>

\* get_session inside the lock, to its return; get_current_questions and
\* is_finished go on outside the lock with what it returned
get_session_locked(t) ==
    /\ task[t].pc = "locked"
    /\ task[t].op \in {"get_session", "get_current_questions", "is_finished"}
    /\ LET g == get_session(Manager, task[t].session_id, now)
       IN IF task[t].op = "get_session"
          THEN /\ Commit(g.m, [task EXCEPT ![t] = IdleTask], effects, completed)
               /\ response' = Response("get_session", task[t].session_id, 200,
                                    [ret |-> g.ret])
          ELSE /\ Commit(g.m, [task EXCEPT ![t].pc = "unlocked", ![t].session = g.ret,
                                           ![t].holds = FALSE],
                         effects, completed)
               /\ UNCHANGED response
    /\ UNCHANGED <<now, nreq, executor, limit, singleton>>

\* delete_session inside the lock, to its return
delete_session_locked(t) ==
    /\ task[t].pc = "locked"
    /\ task[t].op = "delete_session"
    /\ LET d == delete_session(Manager, task[t].session_id)
       IN /\ Commit(d.m, [task EXCEPT ![t] = IdleTask], effects, completed)
          /\ response' = Response("delete_session", task[t].session_id, 200,
                            [ret |-> d.ret])
    /\ UNCHANGED <<now, nreq, executor, limit, singleton>>

\* get_stats inside the lock, to its return
get_stats_locked(t) ==
    /\ task[t].pc = "locked"
    /\ task[t].op = "get_stats"
    /\ LET s == get_stats(Manager)
       IN /\ Commit(s.m, [task EXCEPT ![t] = IdleTask], effects, completed)
          /\ response' = Response("get_stats", NoSession, 200, s.ret)
    /\ UNCHANGED <<now, nreq, executor, limit, singleton>>

\* get_current_questions and is_finished after their get_session
after_get_session(t) ==
    /\ task[t].pc = "unlocked"
    /\ LET session == task[t].session
           ret == IF task[t].op = "is_finished"
                  THEN IF session = NoSession THEN BoolV("True")
                       ELSE IF heap[session].group_index >= Len(QUESTION_GROUPS)
                       THEN BoolV("True") ELSE BoolV("False")
                  ELSE IF session = NoSession THEN None
                       ELSE IF heap[session].group_index >= Len(QUESTION_GROUPS) THEN None
                       ELSE StrV(<<QUESTION_GROUPS[heap[session].group_index + 1].title>>)
       IN /\ response' = Response(task[t].op, task[t].session_id, 200, [ret |-> ret])
          /\ Commit(Manager, [task EXCEPT ![t] = IdleTask], effects, completed)
    /\ UNCHANGED <<now, nreq, executor, limit, singleton>>

(***************************************************************************)
(* SpecLock: two threads in the manager, three calls in all, under fair    *)
(* scheduling of the threads.                                              *)
(***************************************************************************)
InitLock ==
    /\ InitState
    /\ limit = Limit(1, LockMaxTasks, LockMaxRequests, 0, 0, 0)

NextLock ==
    \E t \in Tasks :
        \/ \E op \in ManagerOps, session_id \in Ids \cup {NoSession} :
                manager_call(t, op, session_id)
        \/ lock_enter(t)
        \/ create_session_locked(t)
        \/ get_session_locked(t)
        \/ delete_session_locked(t)
        \/ get_stats_locked(t)
        \/ after_get_session(t)

\* a thread that can go on does go on, and one that waits for the lock gets
\* it if the lock is free again and again
ThreadFairness ==
    \A t \in Tasks :
        /\ SF_vars(lock_enter(t))
        /\ WF_vars(create_session_locked(t))
        /\ WF_vars(get_session_locked(t))
        /\ WF_vars(delete_session_locked(t))
        /\ WF_vars(after_get_session(t))
        /\ WF_vars(get_stats_locked(t))

SpecLock == InitLock /\ [][NextLock]_vars /\ ThreadFairness

(***************************************************************************)
(* The claims.                                                             *)
(***************************************************************************)
\* a session object still in use
InUse(i) == i \in DOMAIN heap /\ heap[i] # Freed

\* C1: two turns on one session id never interleave: on every session, the
\* effects (add_message, update_data, advance_group) of each turn form one
\* unbroken run, so no turn is named twice in the session's run-by-run log.
C1_TurnsNeverInterleave ==
    \A id \in Ids : \A i, j \in 1..Len(effects[id]) :
        i # j => effects[id][i] # effects[id][j]

\* C2: at every moment, get(id) returns the record if and only if id is in the
\* registry and now <= last_activity + timeout; otherwise it returns None.
C2_GetReturnsLiveOnly ==
    \A id \in Ids :
        LET g == get_session(Manager, id, now)
        IN /\ g.ret \in {NoSession, id}
           /\ g.ret = id <=>
                (id \in _sessions
                    /\ now <= heap[id].last_activity + session_timeout_minutes)

\* a GET /session/{id} has just found id in the registry past its timeout and
\* answered 404
C2_Witness ==
    /\ response.op = "get_session"
    /\ response.status_code = 404
    /\ response.session_id \in _sessions
    /\ now > heap[response.session_id].last_activity + session_timeout_minutes
    /\ \E id \in _sessions :
        now = heap[id].last_activity + session_timeout_minutes

\* C3: get never returns a record whose status is Expired: once get has marked
\* a session expired, no get on that id returns it again.
C3_GetNeverReturnsExpired ==
    \A id \in Ids :
        LET g == get_session(Manager, id, now)
        IN g.ret # NoSession => heap[g.ret].status # "expired"

\* C4: no Session is mutated after it has been removed from the registry: a
\* step leaves every removed object as it was (or reclaims it).
C4_NoMutationAfterRemoval ==
    [][\A i \in DOMAIN heap :
        (InUse(i) /\ i \notin _sessions) => heap'[i] \in {heap[i], Freed}]_vars

\* C5: group_index of every session is non-decreasing across every step of
\* text turns, audio turns and skips.
C5_GroupIndexNonDecreasing ==
    [][\A i \in DOMAIN heap :
        (InUse(i) /\ heap'[i] # Freed) => heap'[i].group_index >= heap[i].group_index]_vars

\* skips and then two turns have taken a session past the last group
C5_Witness ==
    \E i \in DOMAIN heap :
        /\ InUse(i)
        /\ heap[i].group_index > TurnsMaxGroupIndex
        /\ heap[i].group_index > NumGroups
        /\ Len(effects[i]) >= 2

\* C6: every accepted text turn, audio turn and skip advances group_index by
\* exactly 1 whatever the extraction gave: once N of them have returned on a
\* session, its group_index is N (none lost, none clamped at the catalog length).
C6_GroupIndexCountsCompleted ==
    \A i \in DOMAIN heap : InUse(i) => heap[i].group_index = completed[i]

\* a text turn whose extraction failed has returned on a session that is
\* past the last group
C6_Witness ==
    /\ response.op = "process_text"
    /\ response.status_code = 200
    /\ response.body.fields_updated = <<>>
    /\ \E i \in DOMAIN heap :
        /\ i = response.session_id
        /\ heap[i].group_index > NumGroups
        /\ heap[i].group_index = completed[i]

\* the handlers that name a session id
RequestOn(a) ==
    \/ get_session_status(a)
    \/ skip_group(a)
    \/ delete_session_endpoint(a)
    \/ \E t \in Tasks :
        \/ process_text(t, a, SomeText)
        \/ process_audio(t, a, <<"RIFF">>)
        \/ fill_form(t, a)
    \/ \E t \in Tasks :
        /\ task[t].pc # "idle"
        /\ task[t].session_id = a
        /\ \/ \E extracted \in {ExtractFailed, Extracted(<< <<"name", AshaKumar>> >>)} :
                \/ process_text_extracted(t, extracted)
                \/ process_audio_extracted(t, extracted)
           \/ process_audio_transcribed(t, SomeText)
           \/ \E outcome \in {"filled", "failed"} : fill_form_filled(t, outcome)

\* C7: registry isolation: a step of a request on session id a leaves every
\* other session b as it was, in the registry or out of it, and a response
\* for b carries the data and group index of b's own record.
C7_RegistryIsolation ==
    [][/\ \A a \in Ids :
            \/ \A b \in DOMAIN heap \ {a} :
                /\ heap'[b] = heap[b]
                /\ b \in _sessions' <=> b \in _sessions
            \/ ~RequestOn(a)
       /\ \A b \in _sessions' :
            (response' # response /\ response'.session_id = b
                /\ response'.status_code = 200) =>
                CASE response'.op \in {"process_text", "process_audio"} ->
                        response'.body.extracted_data = heap'[b].data
                  [] response'.op \in {"get_session", "skip_group", "start_session"} ->
                        response'.body.current_group_index = heap'[b].group_index
                  [] OTHER -> TRUE]_vars

\* a turn on session 1 has returned fields while session 2, with a turn of
\* its own in flight, holds none
C7_Witness ==
    /\ response.op = "process_text"
    /\ response.status_code = 200
    /\ response.session_id = 1
    /\ response.body.fields_updated # <<>>
    /\ 2 \in _sessions
    /\ get_filled_data(heap[2]) = <<>>
    /\ \E t \in Tasks : task[t].pc = "extract" /\ task[t].session = 2

\* C8: the registry lock is free whenever a handler is suspended in a
\* long-latency call (transcription, extraction, browser automation).
C8_LockFreeWhileSuspended ==
    \A t \in Tasks : task[t].pc \in {"transcribe", "extract", "fill"} => _lock = "free"

\* a fill is suspended in the browser after a turn has returned, and the
\* registry has answered another request since
C8_Witness ==
    /\ \E t \in Tasks : task[t].pc = "fill" /\ heap[task[t].session].form_filling_status = "in_progress"
    /\ response.op = "get_session"
    /\ _lock = "free"

\* C9: at most max_workers (2) _fill_form_sync calls execute at the same time
\* over all the fill requests of the process.
C9_AtMostTwoBrowsers == RunningFills <= max_workers

\* C10: update_data is idempotent: applied twice in a row to the same map, the
\* second application returns no changed field and leaves every value as the
\* first left it.
C10_UpdateDataIdempotent ==
    response.op = "update_data" =>
        /\ response.body.second.updated_fields = <<>>
        /\ response.body.second.data = response.body.first.data

\* the first application stored the stripped form of a padded value in a
\* field that already held another value
C10_Witness ==
    /\ response.op = "update_data"
    /\ response.body.first.updated_fields = <<"name">>
    /\ response.body.before["name"] # None
    /\ response.body.new_data = << <<"name", StrV(<<" ", "a", " ">>)>> >>
    /\ response.body.second.data["name"] = StrV(<<"a">>)

\* the value update_data would store for a candidate value
Cleaned(value) == StrV(Strip(PyStr(value)))

\* C11: update_data implements exactly the merge rule: a canonical key with a
\* candidate value (other than null) is overwritten and listed as changed if
\* and only if the value, converted to string and trimmed, is non-empty and
\* differs from the stored one; other keys are ignored, never added and never
\* listed; there is no other filtering by value.
C11_MergeRule ==
    response.op = "update_data" =>
        LET b == response.body
            changed == {b.first.updated_fields[n] : n \in 1..Len(b.first.updated_fields)}
        IN /\ DOMAIN b.first.data = DataKeySet
           /\ changed \subseteq DataKeySet
           /\ \A i \in 1..Len(b.new_data) :
                LET key == b.new_data[i][1]
                    value == b.new_data[i][2]
                IN (key \in DataKeySet /\ value # None) =>
                    /\ key \in changed <=>
                        (Cleaned(value).v # <<>> /\ Cleaned(value) # b.before[key])
                    /\ b.first.data[key] =
                        IF key \in changed THEN Cleaned(value) ELSE b.before[key]

\* C12: in every reachable state each of the 17 values of every session is
\* absent or a non-empty string without leading or trailing whitespace.
C12_FieldsAbsentOrTrimmed ==
    \A i \in DOMAIN heap : InUse(i) =>
        \A k \in DataKeySet :
            LET v == heap[i].data[k]
            IN v = None \/ (v.ty = "str" /\ v.v # <<>> /\ Strip(v.v) = v.v)

\* C13: in every reachable state get_filled_data has no absent-valued key, and
\* GET /session/{id}/data reports 17 fields in all and a percentage in
\* [0, 100] that is 100 * |get_filled_data()| / 17 rounded to one decimal
\* (here in tenths: the tenth nearest to 1000 * filled / 17).
C13_CompletionPercentage ==
    /\ \A i \in DOMAIN heap : InUse(i) =>
        LET filled_data == get_filled_data(heap[i])
        IN \A n \in 1..Len(filled_data) : heap[i].data[filled_data[n]] # None
    /\ (response.op = "get_data" /\ response.status_code = 200) =>
        LET b == response.body
            filled == Cardinality({k \in DataKeySet : b.data[k] # None})
            tenths == b.completion_percentage
        IN /\ b.total_fields = 17
           /\ b.fields_filled = filled
           /\ tenths \in 0..1000
           /\ 2 * (17 * tenths - 1000 * filled) <= 17
           /\ 2 * (1000 * filled - 17 * tenths) <= 17

\* the data of a session with three fields filled has been read: 17.6 percent
C13_Witness ==
    /\ response.op = "get_data"
    /\ response.status_code = 200
    /\ response.body.fields_filled = 3
    /\ response.body.completion_percentage = 176

\* C14: when the extractor fails during a turn, the turn is not aborted: it
\* answers 200 with no changed field, leaves every field as it was, appends no
\* assistant message, and advances group_index by 1.
C14_ExtractorFailureConsumesTurn ==
    [][\A t \in Tasks :
        (/\ task[t].pc = "extract"
         /\ \/ process_text_extracted(t, ExtractFailed)
            \/ process_audio_extracted(t, ExtractFailed)) =>
            LET session == task[t].session
            IN /\ response'.status_code = 200
               /\ response'.body.extracted_data = heap[session].data
               /\ task[t].kind = "text" => response'.body.fields_updated = <<>>
               /\ heap'[session].data = heap[session].data
               /\ heap'[session].chat_history = heap[session].chat_history
               /\ heap'[session].group_index = heap[session].group_index + 1]_vars

\* a text turn with content has returned on a session with no field changed,
\* the user's message the last of the history, and the group advanced
C14_Witness ==
    /\ response.op = "process_text"
    /\ response.status_code = 200
    /\ response.body.input_text = SomeText
    /\ response.body.fields_updated = <<>>
    /\ \E i \in DOMAIN heap :
        /\ i = response.session_id
        /\ InUse(i)
        /\ heap[i].group_index = 1
        /\ get_filled_data(heap[i]) = <<>>
        /\ heap[i].chat_history = <<[role |-> "user", content |-> SomeText]>>

\* C15: a text turn whose extractor returns a non-empty map M returns as
\* changed fields the keys update_data(M) overwrote, a snapshot holding their
\* new values, and advances group_index by 1; on a fresh session that nothing
\* else has touched, M = {name: v} gives changed = [name], group_index = 1 and
\* get_filled_data()[name] = v.
C15_TurnReturnsWhatItMerged ==
    [][\A t \in Tasks : \A extracted \in ExtractorResults :
        (/\ task[t].pc = "extract"
         /\ extracted.ok
         /\ extracted.dict # <<>>
         /\ process_text_extracted(t, extracted)) =>
            LET session == task[t].session
                M == extracted.dict
                changed == response'.body.fields_updated
                fresh == add_message(Session(session, heap[session].last_activity),
                                     "user", task[t].text, heap[session].last_activity)
            IN /\ response'.status_code = 200
               /\ \A n \in 1..Len(changed) :
                    /\ heap'[session].data[changed[n]] # heap[session].data[changed[n]]
                    /\ response'.body.extracted_data[changed[n]] =
                            heap'[session].data[changed[n]]
               /\ \A k \in DataKeySet :
                    heap'[session].data[k] # heap[session].data[k] =>
                        \E n \in 1..Len(changed) : changed[n] = k
               /\ heap'[session].group_index = heap[session].group_index + 1
               /\ (heap[session] = fresh /\ Len(M) = 1 /\ M[1][1] = "name") =>
                    /\ changed = <<"name">>
                    /\ heap'[session].group_index = 1
                    /\ heap'[session].data["name"] = M[1][2]]_vars

\* C16: for a live session GET /session/{id}/questions answers 200 with no
\* group ("none") whenever group_index >= 4 and with the group at group_index
\* whenever group_index < 4; a skip or a turn in the exhausted state still
\* succeeds and takes group_index further past the catalog length.
C16_QuestionsNoneWhenExhausted ==
    [][\A id \in Ids :
        LET alive == get_session(Manager, id, now).ret # NoSession
            group_index == heap[id].group_index
        IN /\ (alive /\ get_questions(id)) =>
                /\ response'.status_code = 200
                /\ group_index >= NumGroups => response'.body = None
                /\ group_index < NumGroups =>
                    /\ response'.body # None
                    /\ response'.body.group_index = group_index
                    /\ response'.body.title = QUESTION_GROUPS[group_index + 1].title
           /\ (alive /\ group_index >= NumGroups /\ skip_group(id)) =>
                /\ response'.status_code = 200
                /\ heap'[id].group_index = group_index + 1
           /\ \A t \in Tasks :
                (/\ task[t].pc = "extract"
                 /\ task[t].session = id
                 /\ group_index >= NumGroups
                 /\ \E extracted \in ExtractorResults :
                        \/ process_text_extracted(t, extracted)
                        \/ process_audio_extracted(t, extracted)) =>
                    /\ response'.status_code = 200
                    /\ heap'[id].group_index = group_index + 1]_vars

\* the questions of a session past the last group have been asked for, and
\* the answer was "none"
C16_Witness ==
    /\ response.op = "get_questions"
    /\ response.status_code = 200
    /\ response.body = None
    /\ response.session_id \in _sessions
    /\ heap[response.session_id].group_index > NumGroups

\* a request that looks session id up with get_session, its body well formed
LookupRequestOn(id) ==
    \/ get_session_status(id)
    \/ get_questions(id)
    \/ get_data(id)
    \/ skip_group(id)
    \/ get_form_status(id)
    \/ \E on_disk \in BOOLEAN : get_screenshot(id, on_disk)
    \/ preview_form_data(id)
    \/ \E t \in Tasks :
        \/ \E text \in Texts \ {StrV(<<>>)} : process_text(t, id, text)
        \/ \E audio_bytes \in AudioFiles : process_audio(t, id, audio_bytes)
        \/ fill_form(t, id)

\* the step answered NotFound for id and did nothing else than mark a
\* registered record expired
OnlyNotFound(id) ==
    /\ response'.status_code = 404
    /\ response'.session_id = id
    /\ _sessions' = _sessions
    /\ <<task, nreq, executor, effects, completed>>' =
            <<task, nreq, executor, effects, completed>>
    /\ heap' = [i \in DOMAIN heap |->
                    IF i = id /\ id \in _sessions
                    THEN [heap[i] EXCEPT !.status = "expired"] ELSE heap[i]]

\* the id is unknown to the registry, or the session's timeout has elapsed
UnknownOrExpired(id) ==
    id \in _sessions => now > heap[id].last_activity + session_timeout_minutes

\* C17 as stated: every operation that takes a session id, delete included,
\* surfaces NotFound whenever the id is unknown or the session's timeout has
\* elapsed, and performs none of its effects.
C17_AlwaysNotFound ==
    [][\A id \in Ids : UnknownOrExpired(id) =>
        ((LookupRequestOn(id) \/ delete_session_endpoint(id)) => OnlyNotFound(id))]_vars

\* C17 amended: every operation but delete, its request well formed, surfaces
\* NotFound whenever the id is unknown or the session's timeout has elapsed
\* and does nothing else than mark the record expired; a text turn with an
\* empty body is refused as invalid before any lookup; delete surfaces
\* NotFound only for an id that is not registered, and removes a registered
\* record, expired or not, reporting success.
C17_NotFoundButDelete ==
    [][\A id \in Ids :
        /\ (UnknownOrExpired(id) /\ LookupRequestOn(id)) => OnlyNotFound(id)
        /\ (\E t \in Tasks : process_text(t, id, StrV(<<>>))) =>
                /\ response'.status_code = 422
                /\ <<heap, _sessions>>' = <<heap, _sessions>>
        /\ delete_session_endpoint(id) =>
                IF id \in _sessions
                THEN response'.status_code = 200 /\ _sessions' = _sessions \ {id}
                ELSE response'.status_code = 404 /\ <<heap, _sessions>>' = <<heap, _sessions>>]_vars

\* a fill was refused as NotFound on a session that had expired with data
\* collected, and the session is still registered, marked expired
C17_Witness ==
    /\ response.op = "fill_form"
    /\ response.status_code = 404
    /\ response.session_id \in _sessions
    /\ heap[response.session_id].status = "expired"
    /\ get_filled_data(heap[response.session_id]) # <<>>
    /\ now > heap[response.session_id].last_activity + session_timeout_minutes

\* C18: a turn rejected as invalid input (empty text, empty audio) mutates
\* nothing of the session, last_activity included, and every text that
\* carries no content is rejected rather than consumed as a turn.
C18_RejectedTurnMutatesNothing ==
    [][\A id \in Ids : \A t \in Tasks :
        ~UnknownOrExpired(id) =>
            /\ process_audio(t, id, <<>>) =>
                    response'.status_code \in {400, 422} /\ heap' = heap
            /\ \A text \in Texts :
                (Strip(text.v) = <<>> /\ process_text(t, id, text)) =>
                    response'.status_code \in {400, 422} /\ heap' = heap]_vars

\* C19 as stated: when the speech collaborator fails during an audio turn,
\* the turn goes on: no field is updated and group_index advances by 1.
C19_SpeechFailureConsumesTurn ==
    [][\A t \in Tasks :
        (task[t].pc = "transcribe" /\ process_audio_transcribed(t, TranscribeFailed)) =>
            LET session == task[t].session
            IN /\ response'.status_code = 200
               /\ heap'[session].data = heap[session].data
               /\ heap'[session].group_index = heap[session].group_index + 1]_vars

\* C19 amended: when the speech collaborator fails during an audio turn, the
\* turn is refused with 400: nothing is appended to the history, no field is
\* updated and group_index does not advance.
C19_SpeechFailureRejectsTurn ==
    [][\A t \in Tasks :
        (task[t].pc = "transcribe" /\ process_audio_transcribed(t, TranscribeFailed)) =>
            LET session == task[t].session
            IN /\ response'.status_code = 400
               /\ response'.op = "process_audio"
               /\ heap'[session] = heap[session]
               /\ completed'[session] = completed[session]
               /\ task'[t] = IdleTask]_vars

\* an audio turn on a session still at its first group has been refused
\* because the audio could not be transcribed
C19_Witness ==
    /\ response.op = "process_audio"
    /\ response.status_code = 400
    /\ response.body.detail = "Could not transcribe audio"
    /\ response.session_id \in _sessions
    /\ heap[response.session_id].group_index = 0
    /\ heap[response.session_id].chat_history = <<>>
    /\ nreq = 1

\* C20: the status POST /form/{id}/fill returns depends on the filler's result
\* only: success, with or without field errors, gives captcha_required with
\* the filler's errors passed through; failure gives failed; completed is
\* never returned.
C20_FillStatusFromResult ==
    [][\A t \in Tasks : \A outcome \in FillOutcomes :
        (task[t].pc = "fill" /\ fill_form_filled(t, outcome)) =>
            LET result == _fill_form_sync(outcome, task[t].session_id, now)
            IN /\ response'.op = "fill_form"
               /\ response'.status_code = 200
               /\ response'.body.status =
                    IF result.success THEN "captcha_required" ELSE "failed"
               /\ response'.body.status # "completed"
               /\ response'.body.errors = result.errors
               /\ response'.body.message = result.message]_vars

\* a fill that ended with field errors, the third request of the run, has
\* been answered captcha_required with the errors, and the session records
\* the fill as completed
C20_Witness ==
    /\ response.op = "fill_form"
    /\ response.status_code = 200
    /\ response.body.status = "captcha_required"
    /\ response.body.errors # <<>>
    /\ nreq >= 3
    /\ heap[response.session_id].form_filling_status = "completed"

\* the fill requests on session id that are between the await on
\* form_filler.fill_form and its return
FillRunning(id) == {t \in Tasks : task[t].pc = "fill" /\ task[t].session = id}

\* the fill requests on the one session of SpecStatus that reached the await:
\* the requests that reached an await, less the text turns among them
FillsTriggered(id) ==
    nreq - completed[id] - Cardinality({t \in Tasks : task[t].pc = "extract"})

\* C21: whenever GET /form/{id}/status answers for a session, the status is
\* never "completed"; it is "pending" if no fill of the session has reached
\* the automation, "in_progress" while a fill of the session has started and
\* not returned, and otherwise, right after a fill returned, the status that
\* fill reported ("captcha_required" on success, "failed" on failure) with
\* that fill's error list.
C21_StatusIsLastKnown ==
    [][\A id \in Ids :
        (id \in _sessions /\ get_form_status(id) /\ response'.status_code = 200) =>
            LET body == response'.body
            IN /\ body.status # "completed"
               /\ FillsTriggered(id) = 0 => body.status = "pending"
               /\ FillRunning(id) # {} => body.status = "in_progress"
               /\ (FillRunning(id) = {} /\ response.op = "fill_form"
                        /\ response.status_code = 200) =>
                    /\ body.status = response.body.status
                    /\ body.status \in {"captcha_required", "failed"}
                    /\ body.errors = response.body.errors]_vars

\* C22: a skip of a live session adds exactly 1 to group_index, starts no
\* call of the extractor (no request becomes suspended, none resumes), and
\* leaves chat_history and every field of data as they were.
C22_SkipAdvancesOnly ==
    [][\A id \in Ids :
        (id \in _sessions /\ skip_group(id) /\ response'.status_code = 200) =>
            /\ heap'[id].group_index = heap[id].group_index + 1
            /\ task' = task
            /\ nreq' = nreq
            /\ heap'[id].chat_history = heap[id].chat_history
            /\ heap'[id].data = heap[id].data]_vars

\* a skip has answered for a session that holds a conversation and a field,
\* while a turn of the session waits for the extractor
C22_Witness ==
    /\ response.op = "skip_group"
    /\ response.status_code = 200
    /\ \E id \in Ids :
        /\ id \in _sessions
        /\ response.session_id = id
        /\ Len(heap[id].chat_history) >= 2
        /\ heap[id].data["name"] # None
        /\ \E t \in Tasks : task[t].pc = "extract" /\ task[t].session = id

\* C23: DELETE on an id answers success exactly when the id is a key of the
\* registry at the call and not-found otherwise; after it the id is not a
\* key, so that get_session(id) gives None and a second delete_session(id)
\* gives False; every other key stays, with its Session as it was.
C23_DeleteRemovesExactlyOne ==
    [][\A id \in Ids :
        delete_session_endpoint(id) =>
            LET after == [sessions |-> _sessions', heap |-> heap', lock |-> _lock']
            IN /\ (response'.status_code = 200) <=> (id \in _sessions)
               /\ (response'.status_code = 404) <=> (id \notin _sessions)
               /\ id \notin _sessions'
               /\ get_session(after, id, now').ret = NoSession
               /\ delete_session(after, id).ret = FALSE
               /\ _sessions' = _sessions \ {id}
               /\ \A j \in _sessions \ {id} : heap'[j] = heap[j]]_vars

\* a delete has removed one of two registered sessions, the other one
\* holding a message
C23_Witness ==
    /\ response.op = "delete_session"
    /\ response.status_code = 200
    /\ response.session_id \notin _sessions
    /\ \E j \in _sessions : heap[j].chat_history # <<>>

\* C24: create_session removes from the registry exactly the entries that
\* are expired at the call (now > last_activity + timeout): afterwards no
\* entry of the registry is expired, every entry that was not expired is
\* still there with its Session unchanged, and the new session is there,
\* active and not expired, however many others were removed.
C24_CreatePurgesExactlyExpired ==
    [][start_session =>
        LET expired == {sid \in _sessions :
                            now > heap[sid].last_activity + session_timeout_minutes}
            created == response'.session_id
        IN /\ created \notin _sessions
           /\ _sessions' = (_sessions \ expired) \cup {created}
           /\ \A sid \in _sessions' :
                ~(now' > heap'[sid].last_activity + session_timeout_minutes)
           /\ \A sid \in _sessions \ expired : heap'[sid] = heap[sid]
           /\ heap'[created].status = "active"
           /\ get_session([sessions |-> _sessions', heap |-> heap', lock |-> _lock'],
                          created, now').ret = created]_vars

\* the third session has been created at a time when the first had expired
\* and the second, used later, had not: the first is gone, the second stays
C24_Witness ==
    /\ response.op = "start_session"
    /\ response.session_id = 3
    /\ _sessions = {2, 3}
    /\ heap[2].last_activity < now

\* C25: create_session returns a Session whose id is the key of no entry of
\* the registry (and of no Session a request still holds), so that no entry
\* is overwritten; the Session is active, at group 0, with no message, all
\* 17 fields None and form status "pending"; and no step ever changes the
\* session_id of a Session.
C25_CreateFreshDefaults ==
    [][/\ start_session =>
            LET created == response'.session_id
                session == heap'[created]
            IN /\ created \notin _sessions
               /\ \A i \in DOMAIN heap : InUse(i) => heap[i].session_id # created
               /\ created \in _sessions'
               /\ session.session_id = created
               /\ session.status = "active"
               /\ response'.body.status = "active"
               /\ session.group_index = 0
               /\ session.chat_history = <<>>
               /\ DOMAIN session.data = DataKeySet
               /\ Cardinality(DataKeySet) = 17
               /\ \A k \in DataKeySet : session.data[k] = None
               /\ session.form_filling_status = "pending"
       /\ \A i \in DOMAIN heap :
            (InUse(i) /\ heap'[i] # Freed) => heap'[i].session_id = heap[i].session_id]_vars

\* a session has been created into a registry that had lost every earlier
\* session
C25_Witness ==
    /\ response.op = "start_session"
    /\ response.session_id = 3
    /\ _sessions = {3}

\* C26: the counts get_stats returns are those of the registry at one
\* instant: while a caller is inside get_stats no entry is added or removed
\* and no stored status changes, and on return total_sessions is the number
\* of entries, active_sessions the number of entries whose status is
\* "active", and active_sessions <= total_sessions.
C26_StatsIsSnapshot ==
    [][\A t \in Tasks :
        task[t].pc = "stats" =>
            /\ _sessions' = _sessions
            /\ \A sid \in _sessions : heap'[sid].status = heap[sid].status
            /\ get_stats_return(t) =>
                /\ response'.body.total_sessions = Cardinality(_sessions)
                /\ response'.body.active_sessions =
                        Cardinality({sid \in _sessions : heap[sid].status = "active"})
                /\ response'.body.active_sessions <= response'.body.total_sessions]_vars

\* get_stats has counted two sessions, one of them marked expired
C26_Witness ==
    /\ response.op = "get_stats"
    /\ response.body.total_sessions = 2
    /\ response.body.active_sessions = 1

\* C27: get_session_manager constructs at most one SessionManager, and every
\* call that has returned, from whichever thread and however the first calls
\* overlapped, returned that one object (never None).
C27_OneSessionManager ==
    /\ managers <= 1
    /\ \A th \in Threads : thread[th].pc = "done" => thread[th].ret = 1
    /\ \A th, u \in Threads :
        (thread[th].pc = "done" /\ thread[u].pc = "done") => thread[th].ret = thread[u].ret

\* one thread has its manager while another, which saw None at the first
\* test, holds the lock before the second test, and a third waits for it
C27_Witness ==
    \E th, u, w \in Threads :
        /\ thread[th].pc = "done"
        /\ thread[th].ret = 1
        /\ thread[u].pc = "check"
        /\ thread[w].pc = "lock"

\* the messages a step appends to the chat_history of session id
Added(id) ==
    SubSeq(heap'[id].chat_history, Len(heap[id].chat_history) + 1,
           Len(heap'[id].chat_history))

\* C28: chat_history only grows at its end: over every step the old history
\* is a prefix of the new one.  A turn appends one user message, holding
\* its text, when it is accepted (for an audio turn, when the transcription
\* arrives) and nothing else until the extractor returns; then it appends
\* one assistant message if the extractor returned a non-empty dict and
\* nothing otherwise.  A rejected audio turn, a skip and a read append
\* nothing.
C28_ChatHistoryAppendOnly ==
    [][\A id \in Ids :
        (InUse(id) /\ heap'[id] # Freed) =>
            /\ Len(heap'[id].chat_history) >= Len(heap[id].chat_history)
            /\ SubSeq(heap'[id].chat_history, 1, Len(heap[id].chat_history))
                    = heap[id].chat_history
            /\ \A t \in Tasks :
                /\ (task[t].pc = "extract" /\ task[t].session = id /\ task'[t].pc = "idle") =>
                        \A extracted \in ExtractorResults :
                            (process_text_extracted(t, extracted)
                                \/ process_audio_extracted(t, extracted)) =>
                                IF extracted.ok /\ extracted.dict # <<>>
                                THEN Len(Added(id)) = 1 /\ Added(id)[1].role = "assistant"
                                ELSE Added(id) = <<>>
                /\ (task[t].pc \in {"idle", "transcribe"} /\ task'[t].pc = "extract"
                        /\ task'[t].session = id) =>
                        Added(id) = <<[role |-> "user", content |-> task'[t].text]>>
                /\ (task[t].pc = "idle" /\ task'[t].pc = "transcribe") => Added(id) = <<>>
                /\ (task[t].pc = "transcribe" /\ task[t].session = id
                        /\ task'[t].pc = "idle") => Added(id) = <<>>
            /\ (task' = task /\ response'.op = "process_text"
                    /\ response'.status_code = 200 /\ response'.session_id = id
                    /\ completed'[id] = completed[id] + 1) =>
                    Added(id) = <<[role |-> "user", content |-> response'.body.input_text]>>
            /\ (skip_group(id) \/ get_questions(id)) => Added(id) = <<>>]_vars

\* a turn has returned with no field updated and yet with the assistant's
\* message as the last of the history: the extractor had returned a dict
\* that holds nothing to store
C28_Witness ==
    /\ response.op = "process_text"
    /\ response.status_code = 200
    /\ response.body.fields_updated = <<>>
    /\ \E id \in Ids :
        /\ InUse(id)
        /\ response.session_id = id
        /\ Len(heap[id].chat_history) >= 2
        /\ heap[id].chat_history[Len(heap[id].chat_history)].role = "assistant"
        /\ \A t \in Tasks : task[t].pc = "idle"

\* C29: a step that changes the chat_history, the data, the group_index or
\* the form_filling_status, form_screenshot_path or form_errors of a Session
\* leaves its last_activity at the time of the step, and no step lowers the
\* last_activity of a Session.
C29_MutationRefreshesActivity ==
    [][\A id \in Ids :
        (InUse(id) /\ heap'[id] # Freed) =>
            /\ heap'[id].last_activity >= heap[id].last_activity
            /\ ( \/ heap'[id].chat_history # heap[id].chat_history
                 \/ heap'[id].data # heap[id].data
                 \/ heap'[id].group_index # heap[id].group_index
                 \/ heap'[id].form_filling_status # heap[id].form_filling_status
                 \/ heap'[id].form_screenshot_path # heap[id].form_screenshot_path
                 \/ heap'[id].form_errors # heap[id].form_errors )
               => heap'[id].last_activity = now']_vars

\* C30: a request calls each collaborator once and never again after a
\* failure.  A text turn at its await has called extract once; an audio turn
\* has called transcribe_audio once and then, if a text came back, extract
\* once; a fill has called the form filler once.  A request leaves an await
\* only forward: from the transcription to the extraction or to its
\* response, from the extraction or the fill to its response.  The call of
\* extract starts in the step that appends the user message and before the
\* turn touches data or group_index, and the group advances in the step
\* in which the call has returned.
C30_SingleAttempt ==
    [][\A t \in Tasks :
        /\ task'[t].pc # "idle" =>
              task'[t].calls =
                  CASE task'[t].pc = "fill" -> <<"fill">>
                    [] task'[t].pc = "transcribe" -> <<"transcribe">>
                    [] task'[t].pc = "extract" /\ task'[t].kind = "text" -> <<"extract">>
                    [] task'[t].pc = "extract" /\ task'[t].kind = "audio" ->
                            <<"transcribe", "extract">>
        /\ task[t].pc \in {"extract", "fill"} => task'[t] \in {task[t], IdleTask}
        /\ task[t].pc = "transcribe" =>
              \/ task'[t] \in {task[t], IdleTask}
              \/ task'[t].pc = "extract" /\ task'[t].req = task[t].req
        /\ (task[t].pc \in {"idle", "transcribe"} /\ task'[t].pc = "extract") =>
              LET id == task'[t].session
                  h == heap'[id].chat_history
              IN /\ Len(h) = Len(heap[id].chat_history) + 1
                 /\ h[Len(h)] = [role |-> "user", content |-> task'[t].text]
                 /\ heap'[id].data = heap[id].data
                 /\ heap'[id].group_index = heap[id].group_index
        /\ (task[t].pc = "extract" /\ task'[t].pc = "idle"
                /\ heap'[task[t].session] # Freed) =>
              heap'[task[t].session].group_index = heap[task[t].session].group_index + 1]_vars

\* a text turn has returned with no field updated, and an audio turn is
\* past its one transcription, waiting for its one call of extract
C30_Witness ==
    /\ response.op = "process_text"
    /\ response.status_code = 200
    /\ response.body.fields_updated = <<>>
    /\ \E t \in Tasks :
        /\ task[t].pc = "extract"
        /\ task[t].kind = "audio"
        /\ task[t].calls = <<"transcribe", "extract">>

\* C31: for a live session whose group_index i is 0, 1, 2 or 3, GET
\* /session/{id}/questions answers with the title, the intro and the
\* questions of entry i of QUESTION_GROUPS, with group_index i, and with
\* is_last true exactly when i = 3.
C31_QuestionsOfCurrentGroup ==
    [][\A id \in Ids :
        (/\ id \in _sessions
         /\ heap[id].group_index \in 0..3
         /\ get_questions(id)
         /\ response'.status_code = 200) =>
            LET i == heap[id].group_index
                body == response'.body
            IN /\ body # None
               /\ body.group_index = i
               /\ body.title = QUESTION_GROUPS[i + 1].title
               /\ body.intro = QUESTION_GROUPS[i + 1].intro
               /\ body.questions = QUESTION_GROUPS[i + 1].questions
               /\ body.is_last <=> (i = 3)
               /\ Len(QUESTION_GROUPS) = 4
               /\ \A j \in 0..3 : j # i => QUESTION_GROUPS[j + 1].title # body.title]_vars

\* the questions of the last group have been returned, marked as the last
C31_Witness ==
    /\ response.op = "get_questions"
    /\ response.status_code = 200
    /\ response.body # None
    /\ response.body.group_index = 3
    /\ response.body.is_last
    /\ response.body.title = "Additional / Special Information"

\* C32: a request that looks up a registered session no later than
\* last_activity + timeout finds it live, is not answered NotFound, whether
\* it reads, writes or is then refused, and leaves last_activity at the time
\* of the request; so a session looked up at intervals of at most the
\* timeout is found live every time.
C32_LookupExtendsLifetime ==
    [][\A id \in Ids :
        (/\ id \in _sessions
         /\ now <= heap[id].last_activity + session_timeout_minutes
         /\ LookupRequestOn(id)) =>
            /\ get_session(Manager, id, now).ret = id
            /\ id \in _sessions'
            /\ heap'[id].last_activity = now
            /\ task' = task => response'.body # [detail |-> "not found"]]_vars

\* a fill has been refused for want of data, a timeout after the start of
\* the run, and the session's time runs from that request
C32_Witness ==
    /\ response.op = "fill_form"
    /\ response.status_code = 400
    /\ response.session_id \in _sessions
    /\ now = session_timeout_minutes
    /\ heap[response.session_id].last_activity = now
    /\ heap[response.session_id].chat_history = <<>>

C34_FilledFieldsOnlyGrow ==
    [][\A id \in Ids :
        (InUse(id) /\ heap'[id] # Freed) =>
            LET before == Len(get_filled_data(heap[id]))
                after == Len(get_filled_data(heap'[id]))
            IN /\ \A k \in DataKeySet :
                    heap[id].data[k] # None => heap'[id].data[k] # None
               /\ after >= before
               /\ completion_percentage(after, Len(DataKeys))
                    >= completion_percentage(before, Len(DataKeys))
               /\ (/\ response.op = "get_data" /\ response.status_code = 200
                   /\ response.session_id = id
                   /\ get_data(id) /\ response'.status_code = 200) =>
                        /\ response'.body.fields_filled >= response.body.fields_filled
                        /\ response'.body.completion_percentage
                                >= response.body.completion_percentage]_vars

\* after three turns two fields are reported filled, one of them holding
\* the empty string
C34_Witness ==
    /\ response.op = "get_data"
    /\ response.status_code = 200
    /\ response.body.fields_filled = 2
    /\ response.body.data["name"] = StrV(<<>>)
    /\ response.body.data["dob"] = StrV(<<"b">>)
    /\ \E id \in Ids : InUse(id) /\ completed[id] = 3

\* C35: no thread comes to `with self._lock` while it is inside a with block
\* of that lock; the lock, once taken, is released; and every call of
\* create_session, get_session, delete_session, get_current_questions,
\* is_finished and get_stats that has begun returns.
C35_LockNeverDeadlocks ==
    /\ [](\A t \in Tasks : task[t].pc = "acquire" => ~task[t].holds)
    /\ (_lock = "held") ~> (_lock = "free")
    /\ \A t \in Tasks : (task[t].pc # "idle") ~> (task[t].pc = "idle")

\* one thread is inside create_session's with block while another waits for
\* the lock in the get_session of is_finished
C35_Witness ==
    \E t, u \in Tasks :
        /\ task[t].pc = "locked"
        /\ task[t].op = "create_session"
        /\ task[u].pc = "acquire"
        /\ task[u].op = "is_finished"
        /\ _lock = "held"

\* C36: the stored form_filling_status of a session is "in_progress" exactly
\* while at least one fill of that session is awaiting the automation, and
\* GET /form/{id}/status answers "in_progress", never "captcha_required" or
\* "failed", while a fill of the session is still running.
C36_InProgressWhileFillInFlight ==
    [][\A id \in _sessions :
        /\ (FillRunning(id) # {}) <=> (heap[id].form_filling_status = "in_progress")
        /\ (get_form_status(id) /\ response'.status_code = 200 /\ FillRunning(id) # {}) =>
                response'.body.status = "in_progress"]_vars

\* C37: POST /form/{id}/fill for a session that get_session returns and whose
\* get_filled_data is empty answers 400 without reaching the automation: no
\* job is submitted, no request becomes suspended, and the session's
\* form_filling_status, form_screenshot_path and form_errors stay as they were.
C37_EmptyFillRejected ==
    [][\A id \in _sessions :
        (/\ get_session(Manager, id, now).ret = id
         /\ get_filled_data(heap[id]) = <<>>
         /\ \E t \in Tasks : fill_form(t, id)) =>
            /\ response'.op = "fill_form"
            /\ response'.status_code = 400
            /\ executor' = executor
            /\ task' = task
            /\ nreq' = nreq
            /\ heap'[id].form_filling_status = heap[id].form_filling_status
            /\ heap'[id].form_screenshot_path = heap[id].form_screenshot_path
            /\ heap'[id].form_errors = heap[id].form_errors]_vars

\* a fill of a fresh session has been refused: nothing runs and the session
\* is still pending with no screenshot and no errors
C37_Witness ==
    /\ response.op = "fill_form"
    /\ response.status_code = 400
    /\ response.session_id \in _sessions
    /\ get_filled_data(heap[response.session_id]) = <<>>
    /\ heap[response.session_id].form_filling_status = "pending"
    /\ heap[response.session_id].form_screenshot_path = None
    /\ heap[response.session_id].form_errors = <<>>
    /\ \A t \in Tasks : task[t].pc = "idle"

====
